---- MODULE Spec2Model ----
(***************************************************************************)
(* A model of the resume/job scoring core of the recruiting backend:       *)
(* the deterministic scoring engine (services/scoring_engine.py), the AI   *)
(* match cache (services/ai_match_cache.py, models/ai_match_cache.py) and  *)
(* the AI relevance client's entry point (services/ai_job_match.py), the   *)
(* embedding store and the semantic similarity (services/embeddings.py,    *)
(* services/semantic_similarity.py), the editing of a job (api/job.py),    *)
(* the extraction and cleaning of resume text                              *)
(* (services/resume_analysis.py) and the retry loop of the Gemini client   *)
(* (services/ai_client.py).                                                *)
(*                                                                         *)
(* Conventions.                                                            *)
(*  - A Python str is a sequence of one-character strings, so that the     *)
(*    code's normalisation, tokenisation and substring tests are computed  *)
(*    character by character as the code computes them.                    *)
(*  - An Optional value is Null or Some(v).                                *)
(*  - A Python float is an exact rational [n, d] in lowest terms (d > 0).  *)
(*    The binary rounding error of a double (below 1e-13 here) can change  *)
(*    a result only where round() meets an exact tie: there the double is  *)
(*    on one side or the other, and tieUp says which.                      *)
(***************************************************************************)
EXTENDS Integers, Sequences, FiniteSets, TLC

VARIABLES
  call,        \* the call of a scoring-engine function under study
  ret,         \* its return value, Null while it has not run
  cache,       \* table ai_match_cache: the set of its rows
  req,         \* per request: position and locals of ai_match_resume_to_job
  apiKey,      \* whether GEMINI_API_KEY is configured
  tieUp,       \* whether the double of an exact tie lies above the tie
  job,         \* table jobs: the title and description of job 1
  embeddings,  \* table embeddings: the set of its rows
  sim,         \* per request: position and locals of get_or_create_embedding
  embedder,    \* EMBEDDINGS_ENABLED, whether fastembed loads, the hash seed
  client,      \* position and locals of gemini_generate_content
  _tasks,      \* the progress tracker's table: task id to its record
  runner       \* per task id: position of its background runner

vars == <<call, ret, cache, req, apiKey, tieUp, job, embeddings, sim, embedder, client, _tasks, runner>>

-----------------------------------------------------------------------------
(* Optional values                                                         *)

Null == [some |-> FALSE]

Some(v) == [some |-> TRUE, v |-> v]

\* `x or ""` for an Optional[str]
OrEmpty(x) == IF x.some THEN x.v ELSE <<>>

-----------------------------------------------------------------------------
(* Characters and strings                                                  *)

UpperSeq ==
  <<"A","B","C","D","E","F","G","H","I","J","K","L","M",
    "N","O","P","Q","R","S","T","U","V","W","X","Y","Z">>

LowerSeq ==
  <<"a","b","c","d","e","f","g","h","i","j","k","l","m",
    "n","o","p","q","r","s","t","u","v","w","x","y","z">>

UpperAlpha == {UpperSeq[i] : i \in 1..26}

LowerAlpha == {LowerSeq[i] : i \in 1..26}

Digits == {"0","1","2","3","4","5","6","7","8","9"}

\* str.strip() and \s: the whitespace characters that occur in the inputs
Whitespace == {" ", "\t", "\n"}

\* the class [a-z0-9+#. ] of _normalize_skill
SkillChars == LowerAlpha \cup Digits \cup {"+", "#", ".", " "}

\* the class [A-Za-z0-9+#.] of _WORD_RE
WordChars == LowerAlpha \cup UpperAlpha \cup Digits \cup {"+", "#", "."}

LowerChar(c) ==
  IF c \in UpperAlpha
    THEN LowerSeq[CHOOSE i \in 1..26 : UpperSeq[i] = c]
    ELSE c

\* str.lower()
Lower(s) == [i \in 1..Len(s) |-> LowerChar(s[i])]

RECURSIVE LStrip(_, _)
LStrip(s, cs) ==
  IF s # <<>> /\ Head(s) \in cs THEN LStrip(Tail(s), cs) ELSE s

RECURSIVE RStrip(_, _)
RStrip(s, cs) ==
  IF s # <<>> /\ s[Len(s)] \in cs THEN RStrip(SubSeq(s, 1, Len(s) - 1), cs) ELSE s

\* str.strip(): both ends, whitespace
Strip(s) == RStrip(LStrip(s, Whitespace), Whitespace)

\* str.strip("."): both ends, dots
StripDots(s) == RStrip(LStrip(s, {"."}), {"."})

\* re.sub(r"[^a-z0-9+#. ]+", " ", s): each maximal run of characters outside
\* the class becomes one space
RECURSIVE SubNoise(_, _)
SubNoise(s, inRun) ==
  IF s = <<>> THEN <<>>
  ELSE IF Head(s) \in SkillChars THEN <<Head(s)>> \o SubNoise(Tail(s), FALSE)
  ELSE IF inRun THEN SubNoise(Tail(s), TRUE)
  ELSE <<" ">> \o SubNoise(Tail(s), TRUE)

\* re.sub(r"\s{2,}", " ", s): each run of two or more whitespace characters
\* becomes one space; a single whitespace character stays as it is
RECURSIVE CollapseSpaces(_)
CollapseSpaces(s) ==
  IF s = <<>> THEN <<>>
  ELSE IF Head(s) \in Whitespace /\ Len(s) >= 2 /\ s[2] \in Whitespace
    THEN <<" ">> \o CollapseSpaces(LStrip(s, Whitespace))
  ELSE <<Head(s)>> \o CollapseSpaces(Tail(s))

\* s.replace(" ", "")
RemoveSpaces(s) == SelectSeq(s, LAMBDA c : c # " ")

\* s.split(" ") without the empty parts
RECURSIVE SplitSpaces(_, _)
SplitSpaces(s, cur) ==
  IF s = <<>> THEN (IF cur = <<>> THEN <<>> ELSE <<cur>>)
  ELSE IF Head(s) = " "
    THEN (IF cur = <<>> THEN <<>> ELSE <<cur>>) \o SplitSpaces(Tail(s), <<>>)
  ELSE SplitSpaces(Tail(s), Append(cur, Head(s)))

\* `sub in s` for two strings
Contains(sub, s) ==
  \E i \in 0..(Len(s) - Len(sub)) : SubSeq(s, i + 1, i + Len(sub)) = sub

\* a + "\n" + b, f"{a}\n{b}"
JoinNL(a, b) == a \o <<"\n">> \o b

\* "\n".join(items)
RECURSIVE JoinLines(_)
JoinLines(items) ==
  IF items = <<>> THEN <<>>
  ELSE IF Len(items) = 1 THEN items[1]
  ELSE items[1] \o <<"\n">> \o JoinLines(Tail(items))

\* [m.group(0) for m in _WORD_RE.finditer(s)]: the maximal runs of word
\* characters that are at least two characters long, in order
RECURSIVE WordMatches(_, _)
WordMatches(s, cur) ==
  IF s = <<>> THEN (IF Len(cur) >= 2 THEN <<cur>> ELSE <<>>)
  ELSE IF Head(s) \in WordChars THEN WordMatches(Tail(s), Append(cur, Head(s)))
  ELSE (IF Len(cur) >= 2 THEN <<cur>> ELSE <<>>) \o WordMatches(Tail(s), <<>>)

\* the elements of a sequence
Range(f) == {f[i] : i \in 1..Len(f)}

\* a list without its repeated elements, first occurrences kept in order
RECURSIVE Dedupe(_, _)
Dedupe(xs, seen) ==
  IF xs = <<>> THEN <<>>
  ELSE IF Head(xs) \in seen THEN Dedupe(Tail(xs), seen)
  ELSE <<Head(xs)>> \o Dedupe(Tail(xs), seen \cup {Head(xs)})

\* xs[:n]
Take(xs, n) == SubSeq(xs, 1, IF Len(xs) < n THEN Len(xs) ELSE n)

-----------------------------------------------------------------------------
(* Exact rationals for Python floats                                       *)

Abs(x) == IF x < 0 THEN -x ELSE x

RECURSIVE GCD(_, _)
GCD(a, b) == IF b = 0 THEN a ELSE GCD(b, a % b)

\* n/d in lowest terms, d > 0
Rat(n, d) ==
  LET g == GCD(Abs(n), d) IN [n |-> n \div g, d |-> d \div g]

RZero == Rat(0, 1)

ROne == Rat(1, 1)

RAdd(a, b) == Rat(a.n * b.d + b.n * a.d, a.d * b.d)

RMul(a, b) == Rat(a.n * b.n, a.d * b.d)

RLt(a, b) == a.n * b.d < b.n * a.d

RLe(a, b) == a.n * b.d <= b.n * a.d

RMin(a, b) == IF RLt(b, a) THEN b ELSE a

\* the code's `if x < 0.0: x = 0.0` followed by `if x > 1.0: x = 1.0`
Clamp01(x) == IF RLt(x, RZero) THEN RZero ELSE IF RLt(ROne, x) THEN ROne ELSE x

\* Python 3 round(x) of a float: to the nearest integer, a tie to the even one
RoundHalfEven(x) ==
  LET q == x.n \div x.d
      r == x.n % x.d
  IN  IF 2 * r < x.d THEN q
      ELSE IF 2 * r > x.d THEN q + 1
      ELSE IF q % 2 = 0 THEN q ELSE q + 1

\* int(round(val)) of the double val whose exact value is x: the nearest
\* integer, and at an exact tie the neighbour on the double's side
RoundFloat(x) ==
  IF x.d = 2 THEN (IF tieUp THEN (x.n + 1) \div 2 ELSE (x.n - 1) \div 2)
  ELSE RoundHalfEven(x)

-----------------------------------------------------------------------------
(* services/scoring_engine.py                                              *)

\* _STOP
STOP ==
  {<<"a">>,
   <<"a", "n">>,
   <<"a", "n", "d">>,
   <<"a", "r", "e">>,
   <<"a", "s">>,
   <<"a", "t">>,
   <<"b", "e">>,
   <<"b", "y">>,
   <<"f", "o", "r">>,
   <<"f", "r", "o", "m">>,
   <<"i", "n">>,
   <<"i", "s">>,
   <<"i", "t">>,
   <<"o", "f">>,
   <<"o", "n">>,
   <<"o", "r">>,
   <<"t", "h", "a", "t">>,
   <<"t", "h", "e">>,
   <<"t", "h", "i", "s">>,
   <<"t", "o">>,
   <<"w", "i", "t", "h">>,
   <<"y", "o", "u">>,
   <<"y", "o", "u", "r">>}

\* _SKILL_ALIASES, as (key, value) pairs
SKILL_ALIASES ==
  <<<<<<"f", "a", "s", "t", "a", "p", "i">>, <<"p", "y", "t", "h", "o", "n">>>>,
    <<<<"d", "j", "a", "n", "g", "o">>, <<"p", "y", "t", "h", "o", "n">>>>,
    <<<<"f", "l", "a", "s", "k">>, <<"p", "y", "t", "h", "o", "n">>>>,
    <<<<"p", "a", "n", "d", "a", "s">>, <<"p", "y", "t", "h", "o", "n">>>>,
    <<<<"n", "u", "m", "p", "y">>, <<"p", "y", "t", "h", "o", "n">>>>,
    <<<<"s", "p", "r", "i", "n", "g">>, <<"j", "a", "v", "a">>>>,
    <<<<"s", "p", "r", "i", "n", "g", "b", "o", "o", "t">>, <<"j", "a", "v", "a">>>>,
    <<<<"n", "o", "d", "e">>, <<"j", "a", "v", "a", "s", "c", "r", "i", "p", "t">>>>,
    <<<<"n", "o", "d", "e", "j", "s">>, <<"j", "a", "v", "a", "s", "c", "r", "i", "p", "t">>>>,
    <<<<"r", "e", "a", "c", "t", "j", "s">>, <<"r", "e", "a", "c", "t">>>>,
    <<<<"n", "e", "x", "t", "j", "s">>, <<"r", "e", "a", "c", "t">>>>,
    <<<<"t", "y", "p", "e", "s", "c", "r", "i", "p", "t">>, <<"j", "a", "v", "a", "s", "c", "r", "i", "p", "t">>>>,
    <<<<"p", "o", "s", "t", "g", "r", "e", "s", "q", "l">>, <<"s", "q", "l">>>>,
    <<<<"m", "y", "s", "q", "l">>, <<"s", "q", "l">>>>,
    <<<<"s", "q", "l", "i", "t", "e">>, <<"s", "q", "l">>>>,
    <<<<"r", "e", "s", "t">>, <<"a", "p", "i">>>>,
    <<<<"r", "e", "s", "t", "a", "p", "i">>, <<"a", "p", "i">>>>,
    <<<<"m", "i", "c", "r", "o", "s", "e", "r", "v", "i", "c", "e", "s">>, <<"b", "a", "c", "k", "e", "n", "d">>>>,
    <<<<"m", "i", "c", "r", "o", "s", "e", "r", "v", "i", "c", "e">>, <<"b", "a", "c", "k", "e", "n", "d">>>>>>

\* _SKILL_ALIASES.get(k, default)
AliasGet(k, default) ==
  IF \E i \in 1..Len(SKILL_ALIASES) : SKILL_ALIASES[i][1] = k
    THEN SKILL_ALIASES[CHOOSE i \in 1..Len(SKILL_ALIASES) : SKILL_ALIASES[i][1] = k][2]
    ELSE default

_normalize_skill(s) == CollapseSpaces(Strip(SubNoise(Lower(Strip(s)), FALSE)))

_canonical_skill(s) ==
  LET n == _normalize_skill(s)
      key == RemoveSpaces(n)
  IN  AliasGet(key, AliasGet(n, n))

(* A stored JSON text (resumes.structured_json, resumes.ai_structured_json)  *)
(* is the empty string, a text json.loads rejects, or the dump of a          *)
(* ResumeStructured object, which json.loads gives back.                     *)
NoPayload ==
  [sections |->
    [skills |-> [items |-> <<>>],
     experience |-> [text |-> <<>>, items |-> <<>>, bullets |-> <<>>],
     education |-> [text |-> <<>>, items |-> <<>>]]]

EmptyJson == [kind |-> "empty", payload |-> NoPayload]

BadJson == [kind |-> "bad", payload |-> NoPayload]

JsonOf(p) == [kind |-> "obj", payload |-> p]

\* truth value of an Optional[str] holding a JSON text
Truthy(j) == j.some /\ j.v.kind # "empty"

\* a faulty choice: the AI-structured text comes first
RawJson_ai_first(structured_json, ai_structured_json) ==
  IF Truthy(ai_structured_json) THEN ai_structured_json.v
  ELSE IF Truthy(structured_json) THEN structured_json.v
  ELSE EmptyJson

\* raw = structured_json or ai_structured_json or ""
RawJson(structured_json, ai_structured_json) ==
  IF Truthy(structured_json) THEN structured_json.v
  ELSE IF Truthy(ai_structured_json) THEN ai_structured_json.v
  ELSE EmptyJson

\* the candidates of one canonical skill: the phrase, then its words
SkillCandidates(n) ==
  IF n = <<>> THEN <<>>
  ELSE IF " " \in Range(n) THEN <<n>> \o SplitSpaces(n, <<>>)
  ELSE <<n>>

RECURSIVE AllCandidates(_)
AllCandidates(items) ==
  IF items = <<>> THEN <<>>
  ELSE SkillCandidates(_canonical_skill(Head(items))) \o AllCandidates(Tail(items))

extract_resume_skills(structured_json, ai_structured_json) ==
  LET raw == RawJson(structured_json, ai_structured_json)
  IN  IF raw.kind # "obj" THEN <<>>
      ELSE Dedupe(AllCandidates(raw.payload.sections.skills.items), {})

\* the words of a job text that become tokens: dots stripped, stop words and
\* words longer than 40 characters dropped, the rest canonicalized
RECURSIVE JobWords(_)
JobWords(ms) ==
  IF ms = <<>> THEN <<>>
  ELSE LET wd == StripDots(Head(ms))
       IN  IF wd = <<>> \/ wd \in STOP \/ Len(wd) > 40
             THEN JobWords(Tail(ms))
             ELSE <<_canonical_skill(wd)>> \o JobWords(Tail(ms))

RECURSIVE CanonicalNonEmpty(_)
CanonicalNonEmpty(skills) ==
  IF skills = <<>> THEN <<>>
  ELSE LET c == _canonical_skill(Head(skills))
       IN  (IF c = <<>> THEN <<>> ELSE <<c>>) \o CanonicalNonEmpty(Tail(skills))

\* a faulty extract_job_skill_tokens: the tokens of title and description
\* are added to the required skills
extract_job_skill_tokens_merged(job_title, job_description, required_skills) ==
  LET explicit == CanonicalNonEmpty(IF required_skills.some THEN required_skills.v ELSE <<>>)
      text == Lower(Strip(JoinNL(OrEmpty(job_title), OrEmpty(job_description))))
  IN  Take(Dedupe(explicit \o JobWords(WordMatches(text, <<>>)), {}), 60)

extract_job_skill_tokens(job_title, job_description, required_skills) ==
  LET explicit == CanonicalNonEmpty(IF required_skills.some THEN required_skills.v ELSE <<>>)
      text == Lower(Strip(JoinNL(OrEmpty(job_title), OrEmpty(job_description))))
  IN  IF explicit # <<>>
        THEN Take(Dedupe(explicit, {}), 60)
        ELSE Take(Dedupe(JobWords(WordMatches(text, <<>>)), {}), 60)

\* a faulty skills_overlap_score: the score is the recall alone
skills_overlap_score_recall(resume_skills, job_skills) ==
  LET rs == Range(resume_skills)
      matched == SelectSeq(job_skills, LAMBDA j : j \in rs)
      missing == SelectSeq(job_skills, LAMBDA j : j \notin rs)
  IN  IF job_skills = <<>>
        THEN [score |-> RZero, matched |-> <<>>, missing |-> <<>>]
        ELSE [score |-> Rat(Len(matched), Len(job_skills)),
              matched |-> Take(matched, 12),
              missing |-> Take(missing, 8)]

skills_overlap_score(resume_skills, job_skills) ==
  LET rs == Range(resume_skills)
      js == job_skills
      matched == SelectSeq(js, LAMBDA j : j \in rs)
      missing == SelectSeq(js, LAMBDA j : j \notin rs)
      recall == Rat(Len(matched), IF Len(js) > 1 THEN Len(js) ELSE 1)
      precision ==
        IF rs # {}
          THEN Rat(Len(matched), IF Cardinality(rs) > 1 THEN Cardinality(rs) ELSE 1)
          ELSE RZero
      pr == RAdd(precision, recall)
      score ==
        IF RLe(pr, RZero) THEN RZero
        ELSE Rat(2 * precision.n * recall.n * pr.d, precision.d * recall.d * pr.n)
  IN  IF js = <<>>
        THEN [score |-> RZero, matched |-> <<>>, missing |-> <<>>]
        ELSE [score |-> Clamp01(score),
              matched |-> Take(matched, 12),
              missing |-> Take(missing, 8)]

\* text + "\n" + "\n".join(items), stripped, when there are items
SectionText(sec) ==
  IF sec.items # <<>>
    THEN Strip(Strip(JoinNL(sec.text, JoinLines(sec.items))))
    ELSE Strip(sec.text)

extract_resume_experience_text(structured_json, ai_structured_json) ==
  LET raw == RawJson(structured_json, ai_structured_json)
  IN  IF raw.kind # "obj" THEN <<>>
      ELSE SectionText(raw.payload.sections.experience)

extract_resume_education_text(structured_json, ai_structured_json) ==
  LET raw == RawJson(structured_json, ai_structured_json)
  IN  IF raw.kind # "obj" THEN <<>>
      ELSE SectionText(raw.payload.sections.education)

\* the loop that fills exp_tokens and stops at 800 distinct tokens
RECURSIVE ExpTokens(_, _)
ExpTokens(ms, acc) ==
  IF ms = <<>> \/ Cardinality(acc) >= 800 THEN acc
  ELSE LET wd == StripDots(Head(ms))
       IN  IF wd = <<>> \/ wd \in STOP
             THEN ExpTokens(Tail(ms), acc)
             ELSE ExpTokens(Tail(ms), acc \cup {wd})

experience_relevance_score(job_tokens, experience_text) ==
  LET et == Strip(Lower(experience_text))
      exp_tokens == ExpTokens(WordMatches(et, <<>>), {})
      overlap == Len(SelectSeq(job_tokens, LAMBDA t : t \in exp_tokens))
      overlap_ratio == Rat(overlap, IF Len(job_tokens) > 1 THEN Len(job_tokens) ELSE 1)
      length_factor == RMin(ROne, Rat(Len(et), 900))
      score == RAdd(RMul(Rat(7, 10), overlap_ratio), RMul(Rat(3, 10), length_factor))
  IN  IF et = <<>> \/ job_tokens = <<>> THEN RZero
      ELSE IF exp_tokens = {} THEN RZero
      ELSE Clamp01(score)

DEGREE_KEYWORDS ==
  <<<<"b", ".", "t", "e", "c", "h">>,
    <<"b", "t", "e", "c", "h">>,
    <<"b", ".", "e">>,
    <<"b", "e", " ">>,
    <<"b", "a", "c", "h", "e", "l", "o", "r">>,
    <<"m", ".", "t", "e", "c", "h">>,
    <<"m", "t", "e", "c", "h">>,
    <<"m", "a", "s", "t", "e", "r">>,
    <<"c", "o", "m", "p", "u", "t", "e", "r", " ", "s", "c", "i", "e", "n", "c", "e">>,
    <<"e", "n", "g", "i", "n", "e", "e", "r", "i", "n", "g">>>>

CERT_KEYWORDS ==
  <<<<"c", "e", "r", "t", "i", "f", "i", "c", "a", "t", "i", "o", "n">>,
    <<"c", "e", "r", "t", "i", "f", "i", "e", "d">>,
    <<"c", "o", "u", "r", "s", "e">>,
    <<"b", "o", "o", "t", "c", "a", "m", "p">>,
    <<"s", "p", "e", "c", "i", "a", "l", "i", "z", "a", "t", "i", "o", "n">>>>

STEM_KEYWORDS ==
  <<<<"b", "a", "c", "k", "e", "n", "d">>,
    <<"a", "p", "i">>,
    <<"c", "l", "o", "u", "d">>,
    <<"d", "a", "t", "a">>,
    <<"p", "y", "t", "h", "o", "n">>,
    <<"j", "a", "v", "a">>,
    <<"j", "a", "v", "a", "s", "c", "r", "i", "p", "t">>,
    <<"s", "q", "l">>,
    <<"d", "e", "v", "o", "p", "s">>>>

\* the number of keywords of kws found in txt
Hits(kws, txt) == Cardinality({i \in 1..Len(kws) : Contains(kws[i], txt)})

education_relevance_score(job_title, job_description, education_text) ==
  LET txt == Strip(Lower(education_text))
      degree_hits == Hits(DEGREE_KEYWORDS, txt)
      cert_hits == Hits(CERT_KEYWORDS, txt)
      job_text == Lower(OrEmpty(job_title) \o <<" ">> \o OrEmpty(job_description))
      stem_overlap ==
        Cardinality({i \in 1..Len(STEM_KEYWORDS) :
                       Contains(STEM_KEYWORDS[i], txt) /\ Contains(STEM_KEYWORDS[i], job_text)})
      score ==
        RAdd(RAdd(RMul(Rat(35, 100), RMin(ROne, Rat(degree_hits, 3))),
                  RMul(Rat(15, 100), RMin(ROne, Rat(cert_hits, 2)))),
             RMul(Rat(50, 100), RMin(ROne, Rat(stem_overlap, 4))))
  IN  IF txt = <<>> THEN RZero ELSE Clamp01(score)

\* a faulty compute_final_score: no component is clamped and the rounded
\* value is returned as it is
compute_final_score_unclamped(semantic_score, skills_score, experience_score, education_score, ai_reasoning_score) ==
  RoundFloat(RMul(Rat(100, 1),
    RAdd(RAdd(RAdd(RAdd(RMul(Rat(10, 100), semantic_score),
                        RMul(Rat(20, 100), skills_score)),
                   RMul(Rat(15, 100), experience_score)),
              RMul(Rat(10, 100), education_score)),
         RMul(Rat(45, 100), ai_reasoning_score))))

\* a faulty compute_final_score: the weights of the semantic and the skills
\* component are exchanged
compute_final_score_swapped(semantic_score, skills_score, experience_score, education_score, ai_reasoning_score) ==
  LET out ==
        RoundFloat(RMul(Rat(100, 1),
          RAdd(RAdd(RAdd(RAdd(RMul(Rat(20, 100), Clamp01(semantic_score)),
                              RMul(Rat(10, 100), Clamp01(skills_score))),
                         RMul(Rat(15, 100), Clamp01(experience_score))),
                    RMul(Rat(10, 100), Clamp01(education_score))),
               RMul(Rat(45, 100), Clamp01(ai_reasoning_score)))))
  IN  IF out < 0 THEN 0 ELSE IF out > 100 THEN 100 ELSE out

\* a faulty compute_final_score: the AI component weighs 0.30 and the
\* semantic component 0.25
compute_final_score_reweighted(semantic_score, skills_score, experience_score, education_score, ai_reasoning_score) ==
  LET out ==
        RoundFloat(RMul(Rat(100, 1),
          RAdd(RAdd(RAdd(RAdd(RMul(Rat(25, 100), Clamp01(semantic_score)),
                              RMul(Rat(20, 100), Clamp01(skills_score))),
                         RMul(Rat(15, 100), Clamp01(experience_score))),
                    RMul(Rat(10, 100), Clamp01(education_score))),
               RMul(Rat(30, 100), Clamp01(ai_reasoning_score)))))
  IN  IF out < 0 THEN 0 ELSE IF out > 100 THEN 100 ELSE out

compute_final_score(semantic_score, skills_score, experience_score, education_score, ai_reasoning_score) ==
  LET val ==
        RMul(Rat(100, 1),
             RAdd(RAdd(RAdd(RAdd(RMul(Rat(10, 100), Clamp01(semantic_score)),
                                 RMul(Rat(20, 100), Clamp01(skills_score))),
                            RMul(Rat(15, 100), Clamp01(experience_score))),
                       RMul(Rat(10, 100), Clamp01(education_score))),
                  RMul(Rat(45, 100), Clamp01(ai_reasoning_score))))
      out == RoundFloat(val)
  IN  IF out < 0 THEN 0 ELSE IF out > 100 THEN 100 ELSE out

\* the weight table score_application writes into the breakdown
WEIGHTS ==
  [ai_reasoning |-> Rat(45, 100), skills |-> Rat(20, 100), experience |-> Rat(15, 100),
   education |-> Rat(10, 100), semantic |-> Rat(10, 100)]

NOTE_NO_STRUCTURED == "No structured resume skills available; skills_score may be low."

NOTE_NO_JOB_TOKENS == "Could not extract skill tokens from job description."

NOTE_NO_AI == "No AI reasoning score available; ai_reasoning_score set to 0."

\* a faulty score_application: a missing ai_relevance_pct counts as 0 and
\* leaves no note
score_application_unnoted(a) ==
  LET resume_skills ==
        extract_resume_skills(a.resume_structured_json, a.resume_ai_structured_json)
      job_skills ==
        extract_job_skill_tokens(a.job_title, a.job_description, a.job_required_skills)
      ov == skills_overlap_score(resume_skills, job_skills)
      exp_text ==
        extract_resume_experience_text(a.resume_structured_json, a.resume_ai_structured_json)
      experience_score == experience_relevance_score(job_skills, exp_text)
      edu_text ==
        extract_resume_education_text(a.resume_structured_json, a.resume_ai_structured_json)
      education_score == education_relevance_score(a.job_title, a.job_description, edu_text)
      ai_score ==
        LET p == IF a.ai_relevance_pct.some THEN a.ai_relevance_pct.v ELSE 0
            lo == IF p < 100 THEN p ELSE 100
        IN  Some(IF lo > 0 THEN lo ELSE 0)
      ai_reasoning_score == IF ai_score.some THEN Rat(ai_score.v, 100) ELSE RZero
      final_score ==
        compute_final_score(a.semantic_score, ov.score, experience_score,
                            education_score, ai_reasoning_score)
      notes ==
        (IF ~Truthy(a.resume_structured_json) /\ ~Truthy(a.resume_ai_structured_json)
           THEN <<NOTE_NO_STRUCTURED>> ELSE <<>>)
        \o (IF job_skills = <<>> THEN <<NOTE_NO_JOB_TOKENS>> ELSE <<>>)
        \o (IF ~ai_score.some THEN <<NOTE_NO_AI>> ELSE <<>>)
  IN  [skills_score |-> ov.score,
       final_score |-> final_score,
       breakdown |->
         [weights |-> WEIGHTS,
          semantic_score |-> a.semantic_score,
          skills_score |-> ov.score,
          experience_score |-> experience_score,
          education_score |-> education_score,
          ai_reasoning_score |-> ai_reasoning_score,
          ai_relevance_score |-> ai_reasoning_score,
          matched_skills |-> ov.matched,
          missing_skills |-> ov.missing,
          notes |-> notes]]

\* a: [job_title, job_description, job_required_skills, resume_structured_json,
\*     resume_ai_structured_json, semantic_score, ai_relevance_pct]
score_application(a) ==
  LET resume_skills ==
        extract_resume_skills(a.resume_structured_json, a.resume_ai_structured_json)
      job_skills ==
        extract_job_skill_tokens(a.job_title, a.job_description, a.job_required_skills)
      ov == skills_overlap_score(resume_skills, job_skills)
      exp_text ==
        extract_resume_experience_text(a.resume_structured_json, a.resume_ai_structured_json)
      experience_score == experience_relevance_score(job_skills, exp_text)
      edu_text ==
        extract_resume_education_text(a.resume_structured_json, a.resume_ai_structured_json)
      education_score == education_relevance_score(a.job_title, a.job_description, edu_text)
      ai_score ==
        IF a.ai_relevance_pct.some
          THEN LET p == a.ai_relevance_pct.v
                   lo == IF p < 100 THEN p ELSE 100
               IN  Some(IF lo > 0 THEN lo ELSE 0)
          ELSE Null
      ai_reasoning_score == IF ai_score.some THEN Rat(ai_score.v, 100) ELSE RZero
      final_score ==
        compute_final_score(a.semantic_score, ov.score, experience_score,
                            education_score, ai_reasoning_score)
      notes ==
        (IF ~Truthy(a.resume_structured_json) /\ ~Truthy(a.resume_ai_structured_json)
           THEN <<NOTE_NO_STRUCTURED>> ELSE <<>>)
        \o (IF job_skills = <<>> THEN <<NOTE_NO_JOB_TOKENS>> ELSE <<>>)
        \o (IF ~ai_score.some THEN <<NOTE_NO_AI>> ELSE <<>>)
  IN  [skills_score |-> ov.score,
       final_score |-> final_score,
       breakdown |->
         [weights |-> WEIGHTS,
          semantic_score |-> a.semantic_score,
          skills_score |-> ov.score,
          experience_score |-> experience_score,
          education_score |-> education_score,
          ai_reasoning_score |-> ai_reasoning_score,
          ai_relevance_score |-> ai_reasoning_score,
          matched_skills |-> ov.matched,
          missing_skills |-> ov.missing,
          notes |-> notes]]

-----------------------------------------------------------------------------
(* Inputs of the scoring functions                                         *)

T_BACKEND_DEVELOPER == <<"B", "a", "c", "k", "e", "n", "d", " ", "D", "e", "v", "e", "l", "o", "p", "e", "r">>

T_NEED_PYTHON == <<"N", "e", "e", "d", " ", "P", "y", "t", "h", "o", "n", " ", "F", "a", "s", "t", "A", "P", "I", " ", "S", "Q", "L", ".", " ", "B", "u", "i", "l", "d", " ", "R", "E", "S", "T", " ", "A", "P", "I", "s", ".">>

T_BUILD_SERVICES == <<"B", "u", "i", "l", "d", " ", "s", "e", "r", "v", "i", "c", "e", "s">>

T_BACKEND == <<"B", "a", "c", "k", "e", "n", "d">>

T_PYTHON == <<"p", "y", "t", "h", "o", "n">>

T_DATA_ENGINEER == <<"D", "a", "t", "a", " ", "E", "n", "g", "i", "n", "e", "e", "r">>

T_CLOUD_DATA == <<"C", "l", "o", "u", "d", " ", "d", "a", "t", "a", " ", "a", "n", "d", " ", "S", "Q", "L">>

T_EXPERIENCE == <<"B", "u", "i", "l", "t", " ", "R", "E", "S", "T", " ", "A", "P", "I", "s", " ", "w", "i", "t", "h", " ", "P", "y", "t", "h", "o", "n", ".">>

T_EDUCATION == <<"B", ".", "T", "e", "c", "h", " ", "C", "o", "m", "p", "u", "t", "e", "r", " ", "S", "c", "i", "e", "n", "c", "e", ",", " ", "c", "e", "r", "t", "i", "f", "i", "e", "d", " ", "P", "y", "t", "h", "o", "n", " ", "c", "o", "u", "r", "s", "e">>

T_AI_EXPERIENCE == <<"J", "a", "v", "a", " ", "b", "a", "c", "k", "e", "n", "d", " ", "m", "i", "c", "r", "o", "s", "e", "r", "v", "i", "c", "e", "s">>

T_AI_EDUCATION == <<"M", "a", "s", "t", "e", "r", " ", "o", "f", " ", "E", "n", "g", "i", "n", "e", "e", "r", "i", "n", "g">>

\* raw skill strings, as a recruiter or a resume writes them
RAW_PYTHON == <<"P", "y", "t", "h", "o", "n">>

RAW_FASTAPI == <<"F", "a", "s", "t", "A", "P", "I">>

RAW_SQL_PADDED == <<" ", "S", "Q", "L", " ">>

RAW_AWS == <<"A", "W", "S">>

RAW_NODE_JS == <<"N", "o", "d", "e", " ", "J", "S">>

RAW_REST_API == <<"R", "e", "s", "t", "-", "A", "P", "I">>

RAW_MACHINE_LEARNING == <<"M", "a", "c", "h", "i", "n", "e", " ", " ", "L", "e", "a", "r", "n", "i", "n", "g">>

RAW_SPRING_BOOT == <<"S", "p", "r", "i", "n", "g", " ", "B", "o", "o", "t">>

RAW_JAVA == <<"J", "a", "v", "a">>

RAW_PUNCT == <<"!", "!", "!">>

RAW_BLANK == <<" ">>

\* (job_title, job_description, job_required_skills)
Jobs ==
  { [job_title |-> Some(T_BACKEND_DEVELOPER), job_description |-> Some(T_NEED_PYTHON),
     job_required_skills |-> Null],
    [job_title |-> Some(T_BACKEND_DEVELOPER), job_description |-> Some(T_BUILD_SERVICES),
     job_required_skills |-> Some(<<RAW_PYTHON, RAW_FASTAPI, RAW_SQL_PADDED, RAW_PYTHON>>)],
    [job_title |-> Some(T_BACKEND), job_description |-> Some(T_PYTHON),
     job_required_skills |-> Some(<<RAW_PUNCT, RAW_BLANK>>)],
    [job_title |-> Some(<<>>), job_description |-> Null,
     job_required_skills |-> Some(<<>>)],
    [job_title |-> Null, job_description |-> Null, job_required_skills |-> Null],
    [job_title |-> Some(T_DATA_ENGINEER), job_description |-> Some(T_CLOUD_DATA),
     job_required_skills |-> Some(<<RAW_NODE_JS, RAW_REST_API>>)] }

\* the resume of tests/test_scoring_engine.py
RESUME_TEST ==
  [sections |->
    [skills |-> [items |-> <<RAW_PYTHON, RAW_FASTAPI, RAW_AWS>>],
     experience |-> [text |-> <<>>, items |-> <<>>, bullets |-> <<>>],
     education |-> [text |-> <<>>, items |-> <<>>]]]

RESUME_FULL ==
  [sections |->
    [skills |-> [items |-> <<RAW_PYTHON, RAW_MACHINE_LEARNING, RAW_SQL_PADDED>>],
     experience |-> [text |-> T_EXPERIENCE, items |-> <<>>, bullets |-> <<>>],
     education |-> [text |-> T_EDUCATION, items |-> <<>>]]]

RESUME_AI ==
  [sections |->
    [skills |-> [items |-> <<RAW_JAVA, RAW_SPRING_BOOT>>],
     experience |-> [text |-> <<>>, items |-> <<T_AI_EXPERIENCE>>, bullets |-> <<>>],
     education |-> [text |-> T_AI_EDUCATION, items |-> <<>>]]]

StructuredJsons ==
  {Null, Some(EmptyJson), Some(BadJson), Some(JsonOf(NoPayload)),
   Some(JsonOf(RESUME_TEST)), Some(JsonOf(RESUME_FULL))}

\* an AI-structured resume as schemas/ai_resume.py shapes it: the experience
\* is carried by bullets
RESUME_AI_BULLETS ==
  [sections |->
    [skills |-> [items |-> <<RAW_JAVA, RAW_SPRING_BOOT>>],
     experience |-> [text |-> <<>>, items |-> <<>>, bullets |-> <<T_AI_EXPERIENCE>>],
     education |-> [text |-> T_AI_EDUCATION, items |-> <<>>]]]

AiStructuredJsons == {Null, Some(JsonOf(RESUME_AI)), Some(JsonOf(RESUME_AI_BULLETS))}

SemanticScores == {Rat(-1, 2), RZero, Rat(4, 5), ROne, Rat(3, 2)}

AiRelevancePcts == {Null, Some(-5), Some(0), Some(50), Some(88), Some(100), Some(150)}

ScoreArgs ==
  { [job_title |-> j.job_title, job_description |-> j.job_description,
     job_required_skills |-> j.job_required_skills,
     resume_structured_json |-> sj, resume_ai_structured_json |-> aj,
     semantic_score |-> s, ai_relevance_pct |-> p] :
      j \in Jobs, sj \in StructuredJsons, aj \in AiStructuredJsons,
      s \in SemanticScores, p \in AiRelevancePcts }

\* skill tokens for direct calls of skills_overlap_score
TOKENS == <<<<"p", "y", "t", "h", "o", "n">>, <<"f", "a", "s", "t", "a", "p", "i">>, <<"s", "q", "l">>, <<"a", "w", "s">>>>

\* the longest job_skills list given to skills_overlap_score
MaxJobTokens == 3

\* the longest required_skills list drawn from RawSkills
MaxRequired == 2

SeqsUpTo(S, n) == UNION {[1..k -> S] : k \in 0..n}

\* the tokens whose index is in I, in the order of TOKENS
TokenList(I) ==
  LET idx == SelectSeq(<<1, 2, 3, 4>>, LAMBDA i : i \in I)
  IN  [k \in 1..Len(idx) |-> TOKENS[idx[k]]]

\* 61 distinct three-letter skills, none of them an alias: one more than the cap
LongRequired ==
  [i \in 1..61 |-> <<"x", LowerSeq[((i - 1) \div 26) + 1], LowerSeq[((i - 1) % 26) + 1]>>]

\* job_skills is a list extract_job_skill_tokens returned, which holds no token
\* twice; the long lists are those that reach the 12 and 8 display limits
OverlapArgs ==
  { [resume_skills |-> TokenList(I), job_skills |-> js] :
      I \in SUBSET (1..4),
      js \in {x \in SeqsUpTo(Range(TOKENS), MaxJobTokens) : Cardinality(Range(x)) = Len(x)} }
  \cup
  { [resume_skills |-> Take(LongRequired, n), job_skills |-> Take(LongRequired, 21)] :
      n \in {0, 13, 21} }

RawSkills == {RAW_PYTHON, RAW_FASTAPI, RAW_SQL_PADDED, RAW_NODE_JS, RAW_PUNCT, RAW_BLANK}

JobTokenArgs ==
  { [job_title |-> t, job_description |-> Some(T_NEED_PYTHON), required_skills |-> rq] :
      t \in {Null, Some(T_BACKEND_DEVELOPER)},
      rq \in {Null, Some(LongRequired)} \cup {Some(s) : s \in SeqsUpTo(RawSkills, MaxRequired)} }

\* the five component scores given directly to compute_final_score
FinalArgs ==
  { [semantic_score |-> s, skills_score |-> k, experience_score |-> e,
     education_score |-> d, ai_reasoning_score |-> a] :
      s \in {Rat(-1, 2), RZero, Rat(4, 5), Rat(3, 2)},
      k \in {RZero, Rat(667, 1000), ROne},
      e \in {RZero, Rat(1, 2), Rat(3, 2)},
      d \in {Rat(-1, 2), Rat(3, 10), ROne},
      a \in {RZero, Rat(1, 2), Rat(88, 100), Rat(3, 2)} }

-----------------------------------------------------------------------------
(* config.py, models/ai_match_cache.py, services/ai_match_cache.py         *)

GEMINI_MODEL == "gemini-2.0-flash"

\* hashlib.sha256(s).hexdigest(): distinct inputs give distinct digests
Sha256(s) == [sha256 |-> s]

\* Null stands for the ValueError
_generate_cache_key(job_id, resume_id, job_text, resume_text) ==
  IF job_id.some /\ resume_id.some
    THEN Some(Sha256([ids |-> <<job_id.v, resume_id.v>>, hashes |-> <<>>,
                      model |-> GEMINI_MODEL]))
  ELSE IF job_text.some /\ resume_text.some
    THEN Some(Sha256([ids |-> <<>>,
                      hashes |-> <<Sha256(job_text.v), Sha256(resume_text.v)>>,
                      model |-> GEMINI_MODEL]))
  ELSE Null

\* json.loads(cache_entry.match_result_json); Null stands for JSONDecodeError
LoadMatchJson(j) == IF j.kind = "obj" THEN Some(j.payload) ELSE Null

\* No statement assigns expires_at, so it is NULL in every row and the expiry
\* test of lines 93-95 never succeeds.
get_cached_match(rows, job_id, resume_id, job_text, resume_text) ==
  LET k == _generate_cache_key(job_id, resume_id, job_text, resume_text)
      found == IF k.some THEN {row \in rows : row.cache_key = k.v} ELSE {}
  IN  IF found = {} THEN Null
      ELSE LoadMatchJson((CHOOSE row \in found : TRUE).match_result_json)

\* a faulty `existing` query: it finds no row
CacheExisting_none(rows, key) == FALSE

\* the `existing` query of cache_match_result
CacheExisting(rows, key) == \E row \in rows : row.cache_key = key

\* the AIMatchCache(...) row cache_match_result builds
NewCacheEntry(key, match_result, job_id, resume_id, api_latency_ms) ==
  [cache_key |-> key,
   job_id |-> job_id,
   resume_id |-> resume_id,
   model_version |-> GEMINI_MODEL,
   match_result_json |-> JsonOf(match_result),
   match_score |-> Some(match_result.score),
   api_latency_ms |-> api_latency_ms]

\* job_id and resume_id are nullable=False
NotNullViolation(row) == ~row.job_id.some \/ ~row.resume_id.some

\* cache_key is unique=True
UniqueViolation(rows, row) == \E x \in rows : x.cache_key = row.cache_key

\* db.add(cache_entry); db.commit(), and db.rollback() when the commit raises:
\* the table afterwards and the value cache_match_result returns
CommitEntry(rows, row) ==
  IF NotNullViolation(row) \/ UniqueViolation(rows, row)
    THEN [rows |-> rows, ok |-> FALSE]
    ELSE [rows |-> rows \cup {row}, ok |-> TRUE]

-----------------------------------------------------------------------------
(* schemas/ai_match.py, services/ai_job_match.py                           *)

\* the _clamp_score / _clamp_overall validators
ClampPct(v) == IF v < 0 THEN 0 ELSE IF v > 100 THEN 100 ELSE v

(* The JSON object of an AI response: sections says whether the three       *)
(* *_summary fields are absent, valid or of a type the schema rejects.       *)
\* AISectionedMatch.model_validate(obj); Null stands for the ValidationError
AISectionedMatch_validate(obj) ==
  IF obj.sections = "invalid" THEN Null
  ELSE Some([overall_match_score |->
               ClampPct(IF obj.overall_match_score.some THEN obj.overall_match_score.v ELSE 0)])

\* AIMatchOutput.model_validate(obj)
AIMatchOutput_validate(obj) ==
  [score |-> ClampPct(IF obj.score.some THEN obj.score.v ELSE 0)]

\* the match dict built from a parsed response, and meta["format"]
BuildMatch(obj) ==
  LET v2 == AISectionedMatch_validate(obj)
  IN  IF v2.some
        THEN [out |-> [overall_match_score |-> Some(v2.v.overall_match_score),
                       score |-> v2.v.overall_match_score],
              format |-> "sectioned_v1"]
        ELSE [out |-> [overall_match_score |-> Null,
                       score |-> AIMatchOutput_validate(obj).score],
              format |-> "legacy_v1"]

RESP_SECTIONED == [sections |-> "valid", overall_match_score |-> Some(70), score |-> Null]

RESP_BAD_SECTIONS == [sections |-> "invalid", overall_match_score |-> Null, score |-> Some(40)]

\* an answer in the legacy flat shape {score, explanation, highlights, gaps}:
\* none of the sectioned fields is there
RESP_LEGACY == [sections |-> "absent", overall_match_score |-> Null, score |-> Some(88)]

RESP_LEGACY_HIGH == [sections |-> "absent", overall_match_score |-> Null, score |-> Some(150)]

\* the JSON objects extract_first_json_object hands to the validation
MatchResponses == {RESP_SECTIONED, RESP_BAD_SECTIONS, RESP_LEGACY, RESP_LEGACY_HIGH}

\* what gemini_generate_content can end with: a response text holding a JSON
\* object, a response text holding none, AIClientHTTPError, AIClientTimeout
AiOutcomes ==
  { [kind |-> "ok", obj |-> Some(RESP_SECTIONED), status_code |-> 200, latency_ms |-> 120],
    [kind |-> "ok", obj |-> Some(RESP_BAD_SECTIONS), status_code |-> 200, latency_ms |-> 250],
    [kind |-> "ok", obj |-> Null, status_code |-> 200, latency_ms |-> 120],
    [kind |-> "http_error", obj |-> Null, status_code |-> 503, latency_ms |-> 0],
    [kind |-> "timeout", obj |-> Null, status_code |-> 0, latency_ms |-> 0] }

\* The prompt holds the job's title and description and the resume text
\* (job_match_sectioned_user_prompt): the provider's answers to the prompt
\* built from a. The answers to another job text carry another score.
AiAnswers(a) ==
  IF a.job_title = Some(T_BACKEND) /\ a.job_description = Some(T_PYTHON) THEN AiOutcomes
  ELSE { IF o.obj.some
           THEN [o EXCEPT !.obj = Some([sections |-> "valid",
                                        overall_match_score |-> Some(Len(a.job_title.v) + Len(a.job_description.v)),
                                        score |-> Null])]
           ELSE o : o \in AiOutcomes }

\* the number of concurrent requests
NumRequests == 2

Requests == 1..NumRequests

\* the calls of ai_match_resume_to_job: the re-analysis flow passes both IDs,
\* the apply and scan flows pass job_id only, and db is optional
MatchArgs ==
  { [db |-> TRUE, job_id |-> Some(1), resume_id |-> Some(1),
     job_title |-> Some(T_BACKEND), job_description |-> Some(T_PYTHON), resume_text |-> T_PYTHON],
    [db |-> TRUE, job_id |-> Some(1), resume_id |-> Some(2),
     job_title |-> Some(T_BACKEND), job_description |-> Some(T_PYTHON), resume_text |-> T_PYTHON],
    [db |-> TRUE, job_id |-> Some(1), resume_id |-> Null,
     job_title |-> Some(T_BACKEND), job_description |-> Some(T_PYTHON), resume_text |-> T_PYTHON],
    [db |-> FALSE, job_id |-> Some(1), resume_id |-> Some(1),
     job_title |-> Some(T_BACKEND), job_description |-> Some(T_PYTHON), resume_text |-> T_PYTHON] }

NoArgs ==
  [db |-> FALSE, job_id |-> Null, resume_id |-> Null,
   job_title |-> Null, job_description |-> Null, resume_text |-> <<>>]

NoMeta ==
  [enabled |-> FALSE, warnings |-> <<>>, from_cache |-> FALSE, cached_hit |-> FALSE,
   cached_by_content |-> FALSE, format |-> "", error_code |-> Null]

\* a request that is not inside ai_match_resume_to_job
Idle ==
  [pc |-> "idle", a |-> NoArgs, sent |-> 0, looked_up |-> FALSE, out |-> Null,
   latency_ms |-> 0, existing |-> FALSE, cache_ok |-> Null, result |-> Null, meta |-> NoMeta]

\* `job_id and resume_id`
BothIds(a) == a.job_id.some /\ a.resume_id.some

\* f"{job_title or ''}\n{job_description or ''}"
JobText(a) == JoinNL(OrEmpty(a.job_title), OrEmpty(a.job_description))

\* a faulty lookup: the cache is not asked
LookupCached_skipped(rows, a) == Null

\* the arguments ai_match_resume_to_job gives get_cached_match
LookupCached(rows, a) ==
  IF BothIds(a)
    THEN get_cached_match(rows, a.job_id, a.resume_id, Null, Null)
    ELSE get_cached_match(rows, Null, Null, Some(JobText(a)), Some(a.resume_text))

\* the key cache_match_result computes from the arguments
\* ai_match_resume_to_job gives it
StoreKey(a) ==
  _generate_cache_key(a.job_id, a.resume_id,
                      IF BothIds(a) THEN Null ELSE Some(JobText(a)),
                      IF BothIds(a) THEN Null ELSE Some(a.resume_text))

WARN_DISABLED == "AI disabled: GEMINI_API_KEY not configured."

WARN_PARSE == "AI response parse failed: ValueError"

WARN_HTTP == "AI call failed: HTTP"

WARN_CLIENT == "AI call failed: AIClientTimeout"

\* ai_match_resume_to_job is entered: meta is built, and without a credential
\* the call returns (None, meta) at once
Call(r) ==
  /\ req[r].pc = "idle"
  /\ \E a \in MatchArgs :
       req' = [req EXCEPT ![r] =
                 IF ~apiKey
                   THEN [Idle EXCEPT !.pc = "done", !.a = a,
                                     !.meta = [NoMeta EXCEPT !.warnings = <<WARN_DISABLED>>]]
                   ELSE [Idle EXCEPT !.pc = IF a.db THEN "lookup" ELSE "call_ai", !.a = a,
                                     !.meta = [NoMeta EXCEPT !.enabled = TRUE]]]
  /\ UNCHANGED <<call, ret, cache, apiKey, tieUp, job, embeddings, sim, embedder, client, _tasks, runner>>

\* the cache lookup, by IDs or by content: a hit returns the cached match
Lookup(r) ==
  /\ req[r].pc = "lookup"
  /\ LET a == req[r].a
         cached == LookupCached(cache, a)
     IN  req' = [req EXCEPT ![r] =
                   IF cached.some
                     THEN [@ EXCEPT !.pc = "done", !.looked_up = TRUE, !.result = cached,
                                    !.meta = [@ EXCEPT !.from_cache = TRUE,
                                                       !.cached_hit = BothIds(a),
                                                       !.cached_by_content = ~BothIds(a)]]
                     ELSE [@ EXCEPT !.pc = "call_ai", !.looked_up = TRUE]]
  /\ UNCHANGED <<call, ret, cache, apiKey, tieUp, job, embeddings, sim, embedder, client, _tasks, runner>>

\* the request q after gemini_generate_content ended with o
AfterAI(q, o) ==
  LET q1 == [q EXCEPT !.sent = @ + 1]
  IN  IF o.kind = "ok" /\ o.obj.some
        THEN LET m == BuildMatch(o.obj.v)
             IN  [q1 EXCEPT !.pc = IF q.a.db THEN "store_check" ELSE "done",
                            !.out = Some(m.out),
                            !.latency_ms = o.latency_ms,
                            !.result = IF q.a.db THEN Null ELSE Some(m.out),
                            !.meta = [@ EXCEPT !.format = m.format]]
      ELSE IF o.kind = "ok"
        THEN [q1 EXCEPT !.pc = "done",
                        !.meta = [@ EXCEPT !.warnings = Append(@, WARN_PARSE)]]
      ELSE IF o.kind = "http_error"
        THEN [q1 EXCEPT !.pc = "done",
                        !.meta = [@ EXCEPT !.error_code = Some(o.status_code),
                                           !.warnings = Append(@, WARN_HTTP)]]
      ELSE [q1 EXCEPT !.pc = "done",
                      !.meta = [@ EXCEPT !.warnings = Append(@, WARN_CLIENT)]]

\* the request to the AI provider and the handling of what comes back
CallAI(r) ==
  /\ req[r].pc = "call_ai"
  /\ \E o \in AiAnswers(req[r].a) : req' = [req EXCEPT ![r] = AfterAI(@, o)]
  /\ UNCHANGED <<call, ret, cache, apiKey, tieUp, job, embeddings, sim, embedder, client, _tasks, runner>>

\* cache_match_result up to its `existing` query: an existing row ends the
\* call with True, and so the match call with its result
StoreCheck(r) ==
  /\ req[r].pc = "store_check"
  /\ LET q == req[r]
         key == StoreKey(q.a)
     IN  req' = [req EXCEPT ![r] =
                   IF ~key.some
                     THEN [q EXCEPT !.pc = "done", !.cache_ok = Some(FALSE), !.result = q.out]
                   ELSE IF CacheExisting(cache, key.v)
                     THEN [q EXCEPT !.pc = "done", !.existing = TRUE,
                                    !.cache_ok = Some(TRUE), !.result = q.out]
                   ELSE [q EXCEPT !.pc = "store_commit"]]
  /\ UNCHANGED <<call, ret, cache, apiKey, tieUp, job, embeddings, sim, embedder, client, _tasks, runner>>

\* cache_match_result from the new row to its return, and the return of the
\* match call
StoreCommit(r) ==
  /\ req[r].pc = "store_commit"
  /\ LET q == req[r]
         c == CommitEntry(cache,
                NewCacheEntry(StoreKey(q.a).v, q.out.v, q.a.job_id, q.a.resume_id,
                              q.latency_ms))
     IN  /\ cache' = c.rows
         /\ req' = [req EXCEPT ![r] =
                      [q EXCEPT !.pc = "done", !.cache_ok = Some(c.ok), !.result = q.out]]
  /\ UNCHANGED <<call, ret, apiKey, tieUp, job, embeddings, sim, embedder, client, _tasks, runner>>

\* the caller has taken (match, meta)
Finish(r) ==
  /\ req[r].pc = "done"
  /\ req' = [req EXCEPT ![r] = Idle]
  /\ UNCHANGED <<call, ret, cache, apiKey, tieUp, job, embeddings, sim, embedder, client, _tasks, runner>>

-----------------------------------------------------------------------------
(* Calls of the scoring functions                                          *)

ScoreApplication ==
  /\ call.fn = "score_application"
  /\ ~ret.some
  /\ ret' = Some(score_application(call.args))
  /\ UNCHANGED <<call, cache, req, apiKey, tieUp, job, embeddings, sim, embedder, client, _tasks, runner>>

SkillsOverlapScore ==
  /\ call.fn = "skills_overlap_score"
  /\ ~ret.some
  /\ ret' = Some(skills_overlap_score(call.args.resume_skills, call.args.job_skills))
  /\ UNCHANGED <<call, cache, req, apiKey, tieUp, job, embeddings, sim, embedder, client, _tasks, runner>>

ExtractJobSkillTokens ==
  /\ call.fn = "extract_job_skill_tokens"
  /\ ~ret.some
  /\ ret' = Some(extract_job_skill_tokens(call.args.job_title, call.args.job_description,
                                          call.args.required_skills))
  /\ UNCHANGED <<call, cache, req, apiKey, tieUp, job, embeddings, sim, embedder, client, _tasks, runner>>

ComputeFinalScore ==
  /\ call.fn = "compute_final_score"
  /\ ~ret.some
  /\ ret' = Some(compute_final_score(call.args.semantic_score, call.args.skills_score,
                                     call.args.experience_score, call.args.education_score,
                                     call.args.ai_reasoning_score))
  /\ UNCHANGED <<call, cache, req, apiKey, tieUp, job, embeddings, sim, embedder, client, _tasks, runner>>

\* ai_match_resume_to_job from the parsed object to the match dict
ParseResponse ==
  /\ call.fn = "build_match"
  /\ ~ret.some
  /\ ret' = Some(BuildMatch(call.args))
  /\ UNCHANGED <<call, cache, req, apiKey, tieUp, job, embeddings, sim, embedder, client, _tasks, runner>>

-----------------------------------------------------------------------------
(* services/resume_parsing.py and the scoring step of the apply pipeline   *)

\* parse_resume_text on a text that is blank, or one word that is neither a
\* section heading nor an acronym normalize_skills rewrites: no section is
\* found, and the word, if there is one, is the only skill item. Only the
\* fields score_application reads are kept.
parse_resume_text(text) ==
  LET raw_text == Strip(text)
      skills == IF raw_text = <<>> THEN <<>> ELSE <<raw_text>>
  IN  [sections |->
        [skills |-> [items |-> skills],
         experience |-> [text |-> <<>>, items |-> <<>>, bullets |-> <<>>],
         education |-> [text |-> <<>>, items |-> <<>>]]]

\* json.dumps of a dict: never the empty string
json_dumps(payload) == JsonOf(payload)

\* the clean_text of an upload
ResumeTexts == {<<>>, RAW_BLANK, T_PYTHON, RAW_FASTAPI}

\* (extracted text, job, ai_structured_json, semantic_score, ai_rel_pct)
ApplyArgs ==
  { [extracted |-> x, job_title |-> j.job_title, job_description |-> j.job_description,
     job_required_skills |-> j.job_required_skills, ai_structured_json |-> aj,
     semantic_score |-> s, ai_rel_pct |-> p] :
      x \in ResumeTexts, j \in Jobs, aj \in AiStructuredJsons,
      s \in SemanticScores, p \in AiRelevancePcts }

\* structured = parse_resume_text(text=extracted); the resume is saved with
\* structured_json = json.dumps(structured) and scored from the saved row
ApplyScore ==
  /\ call.fn = "apply_score"
  /\ ~ret.some
  /\ LET a == call.args
         structured == parse_resume_text(a.extracted)
     IN  ret' = Some(score_application(
                  [job_title |-> a.job_title, job_description |-> a.job_description,
                   job_required_skills |-> a.job_required_skills,
                   resume_structured_json |-> Some(json_dumps(structured)),
                   resume_ai_structured_json |-> a.ai_structured_json,
                   semantic_score |-> a.semantic_score,
                   ai_relevance_pct |-> a.ai_rel_pct]))
  /\ UNCHANGED <<call, cache, req, apiKey, tieUp, job, embeddings, sim, embedder, client, _tasks, runner>>

-----------------------------------------------------------------------------
(* services/embeddings.py, models/embedding.py,                            *)
(* services/semantic_similarity.py                                         *)

\* _WS_RE.sub(" ", s): each run of whitespace becomes one space
RECURSIVE SubWs(_)
SubWs(s) ==
  IF s = <<>> THEN <<>>
  ELSE IF Head(s) \in Whitespace THEN <<" ">> \o SubWs(LStrip(s, Whitespace))
  ELSE <<Head(s)>> \o SubWs(Tail(s))

normalize_text(text) == SubWs(Strip(text))

EMBEDDINGS_MODEL == "BAAI/bge-small-en-v1.5"

\* sha256 of f"{model}\n{text}"
text_hash(text, model) == Sha256(<<model, text>>)

\* Null stands for the RuntimeError of _get_embedder. The vector of a text is
\* the one the embedder of tests/test_embeddings_semantic.py gives it.
embed_text(cfg, text) ==
  LET t == normalize_text(text)
  IN  IF ~cfg.enabled \/ t = <<>> THEN Some(<<>>)
      ELSE IF ~cfg.loadable THEN Null
      ELSE Some(IF Contains(T_PYTHON, Lower(t)) THEN <<1, 0>> ELSE <<0, 1>>)

\* The table is the sequence of its rows in the order of updated_at, so that
\* the most recently written row is the last one.
\* query(...).filter(...).order_by(Embedding.updated_at.desc()).first()
LatestRow(rows, entity_type, entity_id, model) ==
  LET I == {i \in 1..Len(rows) : /\ rows[i].entity_type = entity_type
                                 /\ rows[i].entity_id = entity_id
                                 /\ rows[i].model = model}
  IN  IF I = {} THEN Null ELSE Some(rows[CHOOSE i \in I : \A j \in I : j <= i])

\* get_or_create_embedding up to its write: it returns at once ("return"),
\* embed_text raises ("raise"), or the fields of the row to write are ready;
\* embedded says whether embed_text was called
EmbeddingRead(rows, cfg, t) ==
  LET norm == normalize_text(t.text)
      h == text_hash(norm, EMBEDDINGS_MODEL)
      row == LatestRow(rows, t.entity_type, t.entity_id, EMBEDDINGS_MODEL)
      vector == embed_text(cfg, norm)
  IN  IF ~cfg.enabled \/ norm = <<>>
        THEN [kind |-> "return", row |-> Null, new |-> Null, embedded |-> FALSE]
      ELSE IF row.some /\ row.v.text_hash = h /\ row.v.vector_json.kind # "empty"
        THEN [kind |-> "return", row |-> row, new |-> Null, embedded |-> FALSE]
      ELSE IF ~vector.some
        THEN [kind |-> "raise", row |-> Null, new |-> Null, embedded |-> TRUE]
      ELSE IF vector.v = <<>>
        THEN [kind |-> "return", row |-> Null, new |-> Null, embedded |-> TRUE]
      ELSE [kind |-> "write", row |-> row, embedded |-> TRUE,
            new |-> Some([id |-> 0, entity_type |-> t.entity_type, entity_id |-> t.entity_id,
                          model |-> EMBEDDINGS_MODEL, dim |-> Len(vector.v),
                          text_hash |-> h,
                          vector_json |-> [kind |-> "list", payload |-> vector.v]])]

\* a faulty write: a new row is inserted whether or not one was found
EmbeddingWrite_insert(rows, found, new) ==
  [rows |-> Append(rows, [new EXCEPT !.id = Len(rows) + 1]),
   row |-> Some([new EXCEPT !.id = Len(rows) + 1]), raised |-> FALSE]

\* the write of get_or_create_embedding and its commit: the UPDATE of the row
\* found earlier, or the INSERT of a new one; uq_embeddings_entity_model_hash
\* makes the commit raise IntegrityError, which nothing catches
EmbeddingWrite(rows, found, new) ==
  LET others == IF found.some THEN SelectSeq(rows, LAMBDA x : x.id # found.v.id) ELSE rows
      row == [new EXCEPT !.id = IF found.some THEN found.v.id ELSE Len(rows) + 1]
      clash == \E i \in 1..Len(others) :
                 /\ others[i].entity_type = row.entity_type
                 /\ others[i].entity_id = row.entity_id
                 /\ others[i].model = row.model
                 /\ others[i].text_hash = row.text_hash
  IN  IF clash THEN [rows |-> rows, row |-> Null, raised |-> TRUE]
      ELSE [rows |-> Append(others, row), row |-> Some(row), raised |-> FALSE]

\* one call of get_or_create_embedding that no other request interleaves with
get_or_create_embedding(rows, cfg, t) ==
  LET rd == EmbeddingRead(rows, cfg, t)
      wr == EmbeddingWrite(rows, rd.row, rd.new.v)
  IN  IF rd.kind = "return"
        THEN [rows |-> rows, row |-> rd.row, raised |-> FALSE, embedded |-> rd.embedded]
      ELSE IF rd.kind = "raise"
        THEN [rows |-> rows, row |-> Null, raised |-> TRUE, embedded |-> TRUE]
      ELSE [rows |-> wr.rows, row |-> wr.row, raised |-> wr.raised, embedded |-> TRUE]

\* the sum of f over S
RECURSIVE SumF(_, _)
SumF(f, S) ==
  IF S = {} THEN 0
  ELSE LET x == CHOOSE y \in S : TRUE IN f[x] + SumF(f, S \ {x})

(* A similarity is dot / (sqrt(na) * sqrt(nb)): it is kept as its sign and   *)
(* its square, the exact rational dot^2 / (na * nb).                         *)
SimZero == [neg |-> FALSE, sq |-> RZero]

\* a and b are lists, or the non-zero part of two lists of one length
cosine_similarity(a, b) ==
  LET D == DOMAIN a
      dot == SumF([i \in D |-> a[i] * b[i]], D)
      na == SumF([i \in D |-> a[i] * a[i]], D)
      nb == SumF([i \in D |-> b[i] * b[i]], D)
  IN  IF DOMAIN a = {} \/ DOMAIN b = {} THEN SimZero
      ELSE IF DOMAIN a # DOMAIN b THEN SimZero
      ELSE IF na <= 0 \/ nb <= 0 THEN SimZero
      ELSE [neg |-> dot < 0, sq |-> Rat(dot * dot, na * nb)]

\* `if score < 0.0: return 0.0`, `if score > 1.0: return 1.0`
ClampSim(s) ==
  IF s.neg THEN SimZero ELSE IF RLt(ROne, s.sq) THEN [neg |-> FALSE, sq |-> ROne] ELSE s

\* hash(w) % dim depends on the interpreter's hash seed: under hashseed 0 no
\* two tokens of the inputs share a bucket, under another seed the tokens
\* with one first character do
fallback_semantic_similarity(resume_text, job_text, hashseed) ==
  LET rt == Lower(resume_text)
      jt == Lower(job_text)
      toks(s) == Take(SelectSeq(WordMatches(s, <<>>), LAMBDA w : w \notin STOP), 1200)
      ra == toks(rt)
      ja == toks(jt)
      bucket(w) == IF hashseed = 0 THEN w ELSE <<Head(w)>>
      used == {bucket(ra[i]) : i \in 1..Len(ra)} \cup {bucket(ja[i]) : i \in 1..Len(ja)}
      rv == [b \in used |-> Cardinality({i \in 1..Len(ra) : bucket(ra[i]) = b})]
      jv == [b \in used |-> Cardinality({i \in 1..Len(ja) : bucket(ja[i]) = b})]
  IN  IF Strip(rt) = <<>> \/ Strip(jt) = <<>> THEN SimZero
      ELSE IF ra = <<>> \/ ja = <<>> THEN SimZero
      ELSE cosine_similarity(rv, jv)

\* json.loads(row.vector_json or "[]") when it is a list, else []
vector_from_row(row) ==
  IF row.vector_json.kind = "list" THEN row.vector_json.payload ELSE <<>>

\* `if not r_row or not j_row`, after the latest-row queries: the token
\* fallback is taken
UsesFallback(rows, tasks, got) ==
  \/ ~got[1].some /\ ~LatestRow(rows, "resume", tasks[1].entity_id, EMBEDDINGS_MODEL).some
  \/ ~got[2].some /\ ~LatestRow(rows, "job", tasks[2].entity_id, EMBEDDINGS_MODEL).some

\* a faulty scoring: the rows already present are not looked up
SimilarityOfRows_created_only(rows, cfg, tasks, got) ==
  IF ~got[1].some \/ ~got[2].some
    THEN ClampSim(fallback_semantic_similarity(tasks[1].text, tasks[2].text, cfg.hashseed))
    ELSE ClampSim(cosine_similarity(vector_from_row(got[1].v), vector_from_row(got[2].v)))

\* resume_job_similarity after its two get_or_create_embedding calls, which
\* returned got[1] for the resume and got[2] for the job
SimilarityOfRows(rows, cfg, tasks, got) ==
  LET r_row == IF got[1].some THEN got[1]
               ELSE LatestRow(rows, "resume", tasks[1].entity_id, EMBEDDINGS_MODEL)
      j_row == IF got[2].some THEN got[2]
               ELSE LatestRow(rows, "job", tasks[2].entity_id, EMBEDDINGS_MODEL)
  IN  IF ~r_row.some \/ ~j_row.some
        THEN ClampSim(fallback_semantic_similarity(tasks[1].text, tasks[2].text, cfg.hashseed))
        ELSE ClampSim(cosine_similarity(vector_from_row(r_row.v), vector_from_row(j_row.v)))

T_PYTHON_PANDAS == <<"p", "y", "t", "h", "o", "n", " ", "p", "a", "n", "d", "a", "s">>

\* PYTHONHASHSEED, random at every start of the interpreter when unset
HashSeeds == {0, 1}

\* _run_scan_task scores a scan with fallback_semantic_similarity directly
FallbackSimilarity ==
  /\ call.fn = "fallback_semantic_similarity" /\ ~ret.some
  /\ ret' = Some(fallback_semantic_similarity(call.args.resume_text, call.args.job_text,
                                               embedder.hashseed))
  /\ UNCHANGED <<call, cache, req, apiKey, tieUp, job, embeddings, sim, embedder, client, _tasks, runner>>

T_HELLO_WORLD == <<"H", "e", "l", "l", "o", " ", "w", "o", "r", "l", "d">>

T_HELLO_WORLD_WS == <<"H", "e", "l", "l", "o", " ", " ", " ", "w", "o", "r", "l", "d", "\n", "\n">>

\* the texts that get an embedding
EmbedTexts == {T_HELLO_WORLD, T_HELLO_WORLD_WS, T_PYTHON, <<>>}

\* the calls of get_or_create_embedding: the job and resume handlers
EmbedTasks ==
  { [entity_type |-> e, entity_id |-> 1, text |-> x] : e \in {"job", "resume"}, x \in EmbedTexts }

\* config.py: EMBEDDINGS_ENABLED defaults to "1"; the library is installed
EMBEDDER_DEFAULT == [enabled |-> TRUE, loadable |-> TRUE, hashseed |-> 0]

\* the texts of the requests that run side by side
SharedTexts == {T_PYTHON, <<>>}

\* a request that is in neither function
SimIdle ==
  [pc |-> "idle", fn |-> "", tasks |-> <<>>, got |-> <<>>, found |-> Null, new |-> Null,
   result |-> Null, raised |-> FALSE]

\* the request q once a get_or_create_embedding call has returned row: the
\* next call of resume_job_similarity, its scoring, or the return
AfterEmbedding(q, row) ==
  LET got == Append(q.got, row)
  IN  [q EXCEPT !.got = got, !.found = Null, !.new = Null,
                !.pc = IF Len(got) < Len(q.tasks) THEN "read"
                       ELSE IF q.fn = "resume_job_similarity" THEN "score" ELSE "done",
                !.result = IF q.fn = "get_or_create_embedding" THEN Some(row) ELSE Null]

\* a handler calls get_or_create_embedding and no other request runs
\* until it has returned
GetOrCreateEmbedding ==
  /\ \E t \in EmbedTasks :
       LET e == get_or_create_embedding(embeddings, embedder, t)
       IN  /\ call' = [fn |-> "get_or_create_embedding", args |-> t]
           /\ ret' = Some([row |-> e.row, raised |-> e.raised, embedded |-> e.embedded])
           /\ embeddings' = e.rows
  /\ UNCHANGED <<cache, req, apiKey, tieUp, job, sim, embedder, client, _tasks, runner>>

\* a handler calls get_or_create_embedding
EmbedCall(r) ==
  /\ sim[r].pc = "idle"
  /\ \E t \in {x \in EmbedTasks : x.text \in SharedTexts \cup {T_HELLO_WORLD}} :
       sim' = [sim EXCEPT ![r] = [SimIdle EXCEPT !.pc = "read", !.fn = "get_or_create_embedding",
                                                 !.tasks = <<t>>]]
  /\ UNCHANGED <<call, ret, cache, req, apiKey, tieUp, job, embeddings, embedder, client, _tasks, runner>>

\* a pipeline calls resume_job_similarity
SimilarityCall(r) ==
  /\ sim[r].pc = "idle"
  /\ \E x \in SharedTexts, y \in SharedTexts :
       sim' = [sim EXCEPT ![r] =
                 [SimIdle EXCEPT !.pc = "read", !.fn = "resume_job_similarity",
                                 !.tasks = <<[entity_type |-> "resume", entity_id |-> 1, text |-> x],
                                             [entity_type |-> "job", entity_id |-> 1, text |-> y]>>]]
  /\ UNCHANGED <<call, ret, cache, req, apiKey, tieUp, job, embeddings, embedder, client, _tasks, runner>>

\* get_or_create_embedding from its entry to the point before its write
EmbedRead(r) ==
  /\ sim[r].pc = "read"
  /\ LET q == sim[r]
         rd == EmbeddingRead(embeddings, embedder, q.tasks[Len(q.got) + 1])
     IN  sim' = [sim EXCEPT ![r] =
                   IF rd.kind = "return" THEN AfterEmbedding(q, rd.row)
                   ELSE IF rd.kind = "raise" THEN [q EXCEPT !.pc = "done", !.raised = TRUE]
                   ELSE [q EXCEPT !.pc = "write", !.found = rd.row, !.new = rd.new]]
  /\ UNCHANGED <<call, ret, cache, req, apiKey, tieUp, job, embeddings, embedder, client, _tasks, runner>>

\* the write and commit of get_or_create_embedding, and its return
EmbedWrite(r) ==
  /\ sim[r].pc = "write"
  /\ LET q == sim[r]
         wr == EmbeddingWrite(embeddings, q.found, q.new.v)
     IN  /\ embeddings' = wr.rows
         /\ sim' = [sim EXCEPT ![r] =
                      IF wr.raised THEN [q EXCEPT !.pc = "done", !.raised = TRUE]
                      ELSE AfterEmbedding(q, wr.row)]
  /\ UNCHANGED <<call, ret, cache, req, apiKey, tieUp, job, embedder, client, _tasks, runner>>

\* resume_job_similarity from the latest-row queries to its return value
SimilarityScore(r) ==
  /\ sim[r].pc = "score"
  /\ LET q == sim[r]
     IN  sim' = [sim EXCEPT ![r] =
                   [q EXCEPT !.pc = "done",
                             !.result = Some(SimilarityOfRows(embeddings, embedder,
                                                              q.tasks, q.got))]]
  /\ UNCHANGED <<call, ret, cache, req, apiKey, tieUp, job, embeddings, embedder, client, _tasks, runner>>

\* the semantic_score of the apply pipeline for a finished call q of
\* resume_job_similarity: `semantic_score = 0.0`, then the call inside
\* `try: ... except Exception: pass`
PipelineSemanticScore(q) == IF q.raised THEN SimZero ELSE q.result.v

\* the caller has taken the result or the exception
EmbedReturn(r) ==
  /\ sim[r].pc = "done"
  /\ sim' = [sim EXCEPT ![r] = SimIdle]
  /\ UNCHANGED <<call, ret, cache, req, apiKey, tieUp, job, embeddings, embedder, client, _tasks, runner>>

-----------------------------------------------------------------------------
(* services/resume_analysis.py: extraction and cleaning                    *)
(* The texts of the model hold no digit, hyphen or bullet glyph, so         *)
(* _remove_page_markers and _fix_hyphenation leave them as they are and     *)
(* _normalize_bullets meets whitespace only.                                *)

_MIN_NONWS_CHARS == 30

\* what str.strip() and \s take for whitespace, before the cleaning
PyWhitespace == Whitespace \cup {"\r", "\f"}

StripWs(s) == RStrip(LStrip(s, PyWhitespace), PyWhitespace)

\* F of the value of x: x is evaluated once, however often F reads it
With(x, F(_)) == CHOOSE y \in {F(v) : v \in {x}} : TRUE

\* the function f on 1..n as a tuple
AsTuple(f) == <<>> \o f

\* the indices of s that P holds of, in order
Where(s, P(_)) == SelectSeq([i \in 1..Len(s) |-> i], P)

\* text.replace("\r\n", "\n").replace("\r", "\n")
_normalize_newlines(text) ==
  With(text, LAMBDA s :
    With(Where(s, LAMBDA i : ~(s[i] = "\n" /\ i > 1 /\ s[i - 1] = "\r")), LAMBDA keep :
      AsTuple([k \in 1..Len(keep) |-> IF s[keep[k]] = "\r" THEN "\n" ELSE s[keep[k]]])))

\* _CONTROL_CHARS_RE.sub("", text); the form feed stands for the class
_strip_control_chars(text) == SelectSeq(text, LAMBDA c : c # "\f")

\* _MULTISPACE_RE.sub(" ", text): a run of two or more blanks or tabs
\* becomes one blank
SubMultispace(text) ==
  With(text, LAMBDA s :
    LET blank(i) == i \in 1..Len(s) /\ s[i] \in {" ", "\t"}
    IN  With(Where(s, LAMBDA i : ~(blank(i) /\ blank(i - 1))), LAMBDA keep :
          AsTuple([k \in 1..Len(keep) |->
                     IF blank(keep[k]) /\ blank(keep[k] + 1) THEN " " ELSE s[keep[k]]])))

\* _MULTINEWLINE_RE.sub("\n\n", text): a run of three or more newlines
\* becomes two
SubMultinewline(text) ==
  With(text, LAMBDA s :
    LET nl(i) == i \in 1..Len(s) /\ s[i] = "\n"
    IN  With(Where(s, LAMBDA i : ~(nl(i) /\ nl(i - 1) /\ nl(i - 2))), LAMBDA keep :
          AsTuple([k \in 1..Len(keep) |-> s[keep[k]]])))

_normalize_whitespace(text) ==
  With(SubMultinewline(SubMultispace(text)), LAMBDA s : Strip(s))

\* _BULLET_RE.sub("- ", text): every run of whitespace that begins at the
\* start of a line becomes "- ". Character i gives the slots 2i-1 and 2i of
\* the result: itself, or "-" and " " where such a run begins, or nothing.
_normalize_bullets(text) ==
  With(text, LAMBDA s :
    LET n == Len(s)
        ws(i) == i \in 1..n /\ s[i] \in Whitespace
        lineStart(i) == i = 1 \/ s[i - 1] = "\n"
        inRun(i) == \E j \in 1..i : lineStart(j) /\ \A m \in j..i : ws(m)
        first(i) == inRun(i) /\ ~(i > 1 /\ inRun(i - 1))
        char(k) == (k + 1) \div 2
    IN  With(SelectSeq([k \in 1..(2 * n) |-> k],
                       LAMBDA k : IF k % 2 = 1 THEN ~inRun(char(k)) \/ first(char(k))
                                  ELSE first(char(k))),
             LAMBDA keep :
               AsTuple([k \in 1..Len(keep) |->
                          IF keep[k] % 2 = 0 THEN " "
                          ELSE IF first(char(keep[k])) THEN "-" ELSE s[char(keep[k])]])))

\* text.split("\n")
SplitLines(text) ==
  With(text, LAMBDA s :
    With(Where(s, LAMBDA i : s[i] = "\n"), LAMBDA nl :
      LET from(k) == IF k = 1 THEN 1 ELSE nl[k - 1] + 1
          to(k) == IF k = Len(nl) + 1 THEN Len(s) ELSE nl[k] - 1
      IN  AsTuple([k \in 1..(Len(nl) + 1) |-> SubSeq(s, from(k), to(k))])))

\* the lines that stand among the first or last four non-empty lines of at
\* least two pages, six characters or longer and not a number
_repeated_header_footer_lines(page_texts) ==
  LET norm_line(l) == StripWs(SubMultispace(_strip_control_chars(_normalize_newlines(l))))
      lines(p) == With(SplitLines(_normalize_newlines(p)), LAMBDA ls :
                    SelectSeq(AsTuple([i \in 1..Len(ls) |-> norm_line(ls[i])]),
                              LAMBDA l : l # <<>>))
      edge(ls) == Range(Take(ls, 4)) \cup
                  Range(IF Len(ls) >= 4 THEN SubSeq(ls, Len(ls) - 3, Len(ls)) ELSE ls)
      kept(p) == With(lines(p), LAMBDA ls :
                   {l \in edge(ls) : Len(l) >= 6 /\ ~(\A i \in 1..Len(l) : l[i] \in Digits)})
  IN  IF Len(page_texts) < 2 THEN {}
      ELSE With(AsTuple([i \in 1..Len(page_texts) |-> kept(page_texts[i])]), LAMBDA ks :
             {l \in UNION Range(ks) : Cardinality({i \in 1..Len(ks) : l \in ks[i]}) >= 2})

\* page_texts is Null for None
clean_extracted_text(raw_text, page_texts) ==
  With(_strip_control_chars(_normalize_newlines(raw_text)), LAMBDA text0 :
    With(IF page_texts.some /\ page_texts.v # <<>>
           THEN _repeated_header_footer_lines(page_texts.v) ELSE {},
         LAMBDA remove :
           LET text1 == IF remove = {} THEN text0
                        ELSE JoinLines(SelectSeq(SplitLines(text0),
                               LAMBDA l : LET nl == StripWs(SubMultispace(l))
                                          IN  ~(nl # <<>> /\ nl \in remove)))
           IN  _normalize_whitespace(_normalize_bullets(text1))))

\* "\n\n".join(parts)
RECURSIVE JoinParagraphs(_)
JoinParagraphs(parts) ==
  IF parts = <<>> THEN <<>>
  ELSE IF Len(parts) = 1 THEN parts[1]
  ELSE parts[1] \o <<"\n", "\n">> \o JoinParagraphs(Tail(parts))

WARN_PDF == "Failed to parse PDF text with pypdf."

WARN_DOCX == "Failed to parse DOCX text with python-docx."

WARN_DECODE == "Used UTF-8 fallback decode due to empty extraction."

WARN_PDF_SCANNED == "PDF appears scanned or has no extractable text (OCR did not yield usable text)."

WARN_DOCX_EMPTY == "DOCX appears empty or has no extractable text."

WARN_NO_TEXT == "File has no extractable text."

\* re.sub(r"\s+", "", clean)
NonWs(clean) == SelectSeq(clean, LAMBDA c : c \notin PyWhitespace)

\* a faulty last step: the text below the floor is kept
BlankIfEmptyish_kept(clean, is_emptyish) == clean

\* `if is_emptyish: clean = ""`
BlankIfEmptyish(clean, is_emptyish) == IF is_emptyish THEN <<>> ELSE clean

\* file: what each reader makes of the file at file_path. pdf, docx and bytes
\* are Null when PdfReader, docx.Document or open raises; ocr is the pair
\* _ocr_pdf_with_tesseract returns, which catches every exception itself.
\* Beside the keys of the dict, ocr_calls counts the calls of
\* _ocr_pdf_with_tesseract and first_nonws is len(non_ws) of the first pass.
extract_and_clean_resume_text(file, ext) ==
  LET ext_norm == Lower(OrEmpty(ext))
      is_pdf == ext_norm = <<".", "p", "d", "f">>
      is_docx == ext_norm = <<".", "d", "o", "c", "x">>
      decoded == IF file.bytes.some THEN Some(StripWs(file.bytes.v)) ELSE Null
      first ==
        IF is_pdf
          THEN IF file.pdf.some
                 THEN [raw_text |-> StripWs(JoinParagraphs(file.pdf.v)),
                       page_texts |-> file.pdf, warnings |-> <<>>]
                 ELSE [raw_text |-> <<>>, page_texts |-> Null, warnings |-> <<WARN_PDF>>]
        ELSE IF is_docx
          THEN IF file.docx.some
                 THEN [raw_text |-> StripWs(file.docx.v), page_texts |-> Null,
                       warnings |-> <<>>]
                 ELSE [raw_text |-> <<>>, page_texts |-> Null, warnings |-> <<WARN_DOCX>>]
        ELSE [raw_text |-> OrEmpty(decoded), page_texts |-> Null, warnings |-> <<>>]
      \* the fallback decode of the bytes when nothing was extracted
      extracted ==
        With(first, LAMBDA f :
          With(decoded, LAMBDA d :
            IF f.raw_text = <<>> /\ d.some /\ d.v # <<>>
              THEN [raw_text |-> d.v, page_texts |-> f.page_texts,
                    warnings |-> Append(f.warnings, WARN_DECODE)]
              ELSE f))
      \* the OCR pass and the emptiness floor
      finish(e, clean1) ==
        LET emptyish1 == Len(NonWs(clean1)) < _MIN_NONWS_CHARS
            ocr_called == emptyish1 /\ is_pdf
            ocr_used == ocr_called /\ file.ocr.text # <<>>
        IN  With(IF ocr_used THEN clean_extracted_text(file.ocr.text, Null) ELSE clean1,
                 LAMBDA clean2 :
                   LET is_emptyish ==
                         IF ocr_used THEN Len(NonWs(clean2)) < _MIN_NONWS_CHARS ELSE emptyish1
                       warnings2 ==
                         IF ~emptyish1 THEN e.warnings
                         ELSE IF is_pdf
                           THEN (e.warnings \o file.ocr.warnings) \o
                                (IF is_emptyish THEN <<WARN_PDF_SCANNED>> ELSE <<>>)
                         ELSE IF is_docx THEN Append(e.warnings, WARN_DOCX_EMPTY)
                         ELSE Append(e.warnings, WARN_NO_TEXT)
                       clean == BlankIfEmptyish(clean2, is_emptyish)
                   IN  [clean_text |-> clean,
                        raw_len |-> Len(e.raw_text),
                        clean_len |-> Len(clean),
                        is_probably_scanned_or_empty |-> is_emptyish,
                        warnings |-> warnings2,
                        ocr_calls |-> IF ocr_called THEN 1 ELSE 0,
                        first_nonws |-> Len(NonWs(clean1))])
  IN  With(extracted, LAMBDA e :
        With(clean_extracted_text(e.raw_text, e.page_texts), LAMBDA clean1 :
          finish(e, clean1)))

\* n times the letter x
Xs(n) == [i \in 1..n |-> "x"]

\* the OCR text of tests/test_resume_extraction_cleaning.py, without its
\* page marker
T_OCR == <<"B", "u", "i", "l", "t", " ", "R", "E", "S", "T", " ", "A", "P", "I", "s", " ", "u", "s", "i", "n", "g", " ", "F", "a", "s", "t", "A", "P", "I", " ", "a", "n", "d", " ", "d", "e", "p", "l", "o", "y", "e", "d", " ", "o", "n", " ", "A", "W", "S", ".">>

\* two paragraphs with Windows line ends: one character below the floor
T_PARAGRAPHS == <<"x", "\r", "\n", "\r", "\n">> \o Xs(28)

\* a form feed, runs of blanks and tabs, and the floor exactly
T_NOISY == <<"\f", " ", " ">> \o Xs(15) \o <<" ", "\t", " ">> \o Xs(15) \o <<"\t", "\n">>

\* two pages under one header
PAGE_1 == <<"J", "o", "h", "n", " ", "D", "o", "e", "\n", "E", "x", "p", "e", "r", "i", "e", "n", "c", "e", " ", "w", "i", "t", "h", " ", "P", "y", "t", "h", "o", "n">>

PAGE_2 == <<"J", "o", "h", "n", " ", " ", "D", "o", "e", "\n", "P", "r", "o", "j", "e", "c", "t", "s", "\n", "\n", "\n", "\n", "B", "a", "c", "k", "e", "n", "d", " ", "s", "e", "r", "v", "i", "c", "e", "s">>

Exts ==
  {Null, Some(<<".", "p", "d", "f">>), Some(<<".", "P", "D", "F">>),
   Some(<<".", "d", "o", "c", "x">>), Some(<<".", "t", "x", "t">>)}

PdfOutcomes == {Null, Some(<<>>), Some(<<<<>>>>), Some(<<T_OCR>>), Some(<<PAGE_1, PAGE_2>>)}

DocxOutcomes == {Null, Some(<<>>), Some(Xs(30))}

BytesOutcomes == {Null, Some(<<>>), Some(Xs(29)), Some(T_PARAGRAPHS), Some(T_NOISY)}

OcrOutcomes ==
  { [text |-> <<>>, warnings |-> <<"OCR unavailable: missing python dependency pdf2image.">>],
    [text |-> <<>>,
     warnings |-> <<"OCR failed: could not rasterize PDF pages (Poppler may be missing).">>],
    [text |-> T_OCR, warnings |-> <<>>],
    [text |-> T_PYTHON, warnings |-> <<"OCR warning: failed to OCR a page.">>] }

ExtractArgs ==
  { [file |-> [pdf |-> p, docx |-> d, bytes |-> b, ocr |-> o], ext |-> e] :
      p \in PdfOutcomes, d \in DocxOutcomes, b \in BytesOutcomes, o \in OcrOutcomes,
      e \in Exts }

ExtractAndClean ==
  /\ call.fn = "extract_and_clean_resume_text"
  /\ ~ret.some
  /\ ret' = Some(extract_and_clean_resume_text(call.args.file, call.args.ext))
  /\ UNCHANGED <<call, cache, req, apiKey, tieUp, job, embeddings, sim, embedder, client, _tasks, runner>>

-----------------------------------------------------------------------------
(* api/job.py: update_job and the re-analysis of a saved application       *)

\* the Job row of job 1 as create_job stored it
JOB_1 == [job_title |-> Some(T_BACKEND), job_description |-> Some(T_PYTHON)]

\* the titles and descriptions a JobUpdate payload carries; Null: not given
UpdateTitles == {Null, Some(T_DATA_ENGINEER)}

UpdateDescriptions == {Null, Some(T_PYTHON), Some(T_CLOUD_DATA)}

\* update_job: the fields of the payload replace the stored ones, the row is
\* committed and the job's embedding is refreshed (best effort). No statement
\* of the handler touches ai_match_cache.
UpdateJob ==
  /\ \E title \in UpdateTitles, description \in UpdateDescriptions :
       LET j == [job_title |-> IF title.some THEN Some(Strip(title.v)) ELSE job.job_title,
                 job_description |-> IF description.some THEN description
                                     ELSE job.job_description]
           e == get_or_create_embedding(embeddings, embedder,
                  [entity_type |-> "job", entity_id |-> 1, text |-> Strip(JobText(j))])
       IN  /\ job' = j
           /\ embeddings' = e.rows
  /\ UNCHANGED <<call, ret, cache, req, apiKey, tieUp, sim, embedder, client, _tasks, runner>>

\* _analyze_and_update_existing_application reads the job and the resume of
\* the application and enters ai_match_resume_to_job with both IDs
Reanalyze(r) ==
  /\ req[r].pc = "idle"
  /\ LET a == [db |-> TRUE, job_id |-> Some(1), resume_id |-> Some(1),
               job_title |-> job.job_title, job_description |-> job.job_description,
               resume_text |-> T_PYTHON]
     IN  req' = [req EXCEPT ![r] =
                   IF ~apiKey
                     THEN [Idle EXCEPT !.pc = "done", !.a = a,
                                       !.meta = [NoMeta EXCEPT !.warnings = <<WARN_DISABLED>>]]
                     ELSE [Idle EXCEPT !.pc = "lookup", !.a = a,
                                       !.meta = [NoMeta EXCEPT !.enabled = TRUE]]]
  /\ UNCHANGED <<call, ret, cache, apiKey, tieUp, job, embeddings, sim, embedder, client, _tasks, runner>>

\* no call of gemini_generate_content is running
ClientIdle == [pc |-> "idle"]

-----------------------------------------------------------------------------
(* services/ai_client.py: gemini_generate_content; the except clauses of   *)
(* ai_match_resume_to_job; the quota/overload detection of the pipelines   *)

\* the largest max_retries (AI_MAX_RETRIES) of a call
MaxRetries == 2

\* `r.status_code in {408, 429, 500, 502, 503, 504}`
RETRY_STATUSES == {408, 429, 500, 502, 503, 504}

\* `code in {408, 500, 502, 503, 504}`
OVERLOAD_STATUSES == {408, 500, 502, 503, 504}

M_RESOURCE_EXHAUSTED == <<"s", "t", "a", "t", "u", "s", ":", " ", "R", "E", "S", "O", "U", "R", "C", "E", "_", "E", "X", "H", "A", "U", "S", "T", "E", "D">>

M_QUOTA_EXCEEDED == <<"Q", "u", "o", "t", "a", " ", "e", "x", "c", "e", "e", "d", "e", "d", " ", "f", "o", "r", " ", "r", "e", "q", "u", "e", "s", "t", "s">>

M_RATE_LIMIT == <<"R", "a", "t", "e", " ", "L", "i", "m", "i", "t", " ", "r", "e", "a", "c", "h", "e", "d">>

M_OVERLOADED == <<"T", "h", "e", " ", "m", "o", "d", "e", "l", " ", "i", "s", " ", "o", "v", "e", "r", "l", "o", "a", "d", "e", "d", ".">>

M_UNAVAILABLE == <<"S", "e", "r", "v", "i", "c", "e", " ", "U", "n", "a", "v", "a", "i", "l", "a", "b", "l", "e">>

M_NOT_FOUND == <<"m", "o", "d", "e", "l", "s", "/", "x", " ", "i", "s", " ", "n", "o", "t", " ", "f", "o", "u", "n", "d">>

M_NOT_SUPPORTED == <<"N", "o", "t", " ", "S", "u", "p", "p", "o", "r", "t", "e", "d", " ", "f", "o", "r", " ", "g", "e", "n", "e", "r", "a", "t", "e", "C", "o", "n", "t", "e", "n", "t">>

M_BAD_REQUEST == <<"I", "n", "v", "a", "l", "i", "d", " ", "a", "r", "g", "u", "m", "e", "n", "t">>

\* what one POST ends with: a response (status, body text) or an exception
\* of httpx (a timeout, another RequestError)
Replies ==
  { [kind |-> "response", status |-> c[1], text |-> c[2]] :
      c \in { <<200, <<"{", "}">>>>, <<400, M_BAD_REQUEST>>, <<400, M_OVERLOADED>>,
              <<401, <<>>>>, <<403, M_QUOTA_EXCEEDED>>, <<403, M_UNAVAILABLE>>,
              <<404, M_NOT_FOUND>>, <<404, M_NOT_SUPPORTED>>, <<404, <<>>>>,
              <<408, <<>>>>, <<429, M_RESOURCE_EXHAUSTED>>, <<429, <<>>>>,
              <<500, <<>>>>, <<500, M_RATE_LIMIT>>, <<502, <<>>>>,
              <<503, M_OVERLOADED>>, <<503, M_RESOURCE_EXHAUSTED>>, <<504, M_UNAVAILABLE>> } }
  \cup { [kind |-> "timeout", status |-> 0, text |-> <<>>],
         [kind |-> "request_error", status |-> 0, text |-> <<>>] }

\* backoff = 0.5 * (2**attempt), in seconds
RECURSIVE Pow2(_)
Pow2(k) == IF k = 0 THEN 1 ELSE 2 * Pow2(k - 1)

Backoff(attempt) == Rat(Pow2(attempt), 2)

\* the 404 that sends the client looking for another model
ModelNotFound(reply) ==
  /\ reply.kind = "response"
  /\ reply.status = 404
  /\ \/ Contains(<<"n", "o", "t", " ", "f", "o", "u", "n", "d">>, Lower(reply.text))
     \/ Contains(<<"n", "o", "t", " ", "s", "u", "p", "p", "o", "r", "t", "e", "d">>,
                 Lower(reply.text))

\* a faulty end of an attempt: when no attempt is left the failure is
\* swallowed and "" is returned
AfterReply_empty(c, r) ==
  IF r.kind = "response" /\ r.status < 400
    THEN [c EXCEPT !.pc = "returned", !.last = Some(r), !.text = Some(Strip(r.text))]
  ELSE IF (r.kind # "response" \/ r.status \in RETRY_STATUSES) /\ c.attempt < c.max_retries
    THEN [c EXCEPT !.pc = "sleep", !.last = Some(r)]
  ELSE [c EXCEPT !.pc = "returned", !.last = Some(r), !.text = Some(<<>>)]

\* a faulty end of an attempt: every failure is retried while attempts
\* are left
AfterReply_any(c, r) ==
  IF r.kind = "response" /\ r.status < 400
    THEN [c EXCEPT !.pc = "returned", !.last = Some(r), !.text = Some(Strip(r.text))]
  ELSE IF c.attempt < c.max_retries
    THEN [c EXCEPT !.pc = "sleep", !.last = Some(r)]
  ELSE [c EXCEPT !.pc = "raised", !.last = Some(r),
                 !.error = Some(IF r.kind = "response" THEN "AIClientHTTPError"
                                ELSE IF r.kind = "timeout" THEN "AIClientTimeout"
                                ELSE "AIClientError")]

\* the end of one attempt whose last reply is r: the return, the sleep
\* before the next attempt, or the exception raised
AfterReply(c, r) ==
  IF r.kind = "response" /\ r.status < 400
    THEN [c EXCEPT !.pc = "returned", !.last = Some(r), !.text = Some(Strip(r.text))]
  ELSE IF (r.kind # "response" \/ r.status \in RETRY_STATUSES) /\ c.attempt < c.max_retries
    THEN [c EXCEPT !.pc = "sleep", !.last = Some(r)]
  ELSE [c EXCEPT !.pc = "raised", !.last = Some(r),
                 !.error = Some(IF r.kind = "response" THEN "AIClientHTTPError"
                                ELSE IF r.kind = "timeout" THEN "AIClientTimeout"
                                ELSE "AIClientError")]

\* gemini_generate_content is called; range(max_retries + 1) is empty for
\* a negative max_retries, and the function returns "" at once
GenerateContent ==
  /\ client.pc = "idle"
  /\ \E m \in (-1)..MaxRetries :
       client' = [pc |-> IF m < 0 THEN "returned" ELSE "post",
                  max_retries |-> m, attempt |-> 0, posts |-> 0, sleeps |-> <<>>,
                  last |-> Null, text |-> IF m < 0 THEN Some(<<>>) ELSE Null,
                  error |-> Null, meta |-> Null, ai_error |-> Null, discoveries |-> 0]
  /\ UNCHANGED <<call, ret, cache, req, apiKey, tieUp, job, embeddings, sim, embedder, _tasks, runner>>

\* the POST of an attempt and what the loop body does with its reply;
\* discoveries counts the times the call enters the model discovery
Post ==
  /\ client.pc = "post"
  /\ \E r \in Replies :
       client' = IF ModelNotFound(r)
                   THEN [client EXCEPT !.pc = "discover", !.posts = @ + 1, !.last = Some(r),
                                       !.discoveries = @ + 1]
                   ELSE AfterReply([client EXCEPT !.posts = @ + 1], r)
  /\ UNCHANGED <<call, ret, cache, req, apiKey, tieUp, job, embeddings, sim, embedder, _tasks, runner>>

\* after a 404 for the model: no other model is found, or the listing or the
\* second POST raises (the exception is logged and dropped), and the 404
\* stands; or the request is sent once more, to the discovered model, and
\* its response takes the place of the first
Discover ==
  /\ client.pc = "discover"
  /\ \/ client' = AfterReply(client, client.last.v)
     \/ \E r \in {x \in Replies : x.kind = "response"} :
          client' = AfterReply([client EXCEPT !.posts = @ + 1], r)
  /\ UNCHANGED <<call, ret, cache, req, apiKey, tieUp, job, embeddings, sim, embedder, _tasks, runner>>

\* await asyncio.sleep(backoff); continue
Sleep ==
  /\ client.pc = "sleep"
  /\ client' = [client EXCEPT !.pc = "post", !.attempt = @ + 1,
                              !.sleeps = Append(@, Backoff(client.attempt))]
  /\ UNCHANGED <<call, ret, cache, req, apiKey, tieUp, job, embeddings, sim, embedder, _tasks, runner>>

\* ai_match_resume_to_job after the call: only AIClientHTTPError leaves
\* error_code and error_message in the meta
MatchMeta ==
  /\ client.pc \in {"returned", "raised"}
  /\ client' = [client EXCEPT
       !.pc = "matched",
       !.meta = Some(IF client.error = Some("AIClientHTTPError")
                       THEN [error_code |-> Some(client.last.v.status),
                             error_message |-> Some(client.last.v.text)]
                       ELSE [error_code |-> Null, error_message |-> Null])]
  /\ UNCHANGED <<call, ret, cache, req, apiKey, tieUp, job, embeddings, sim, embedder, _tasks, runner>>

\* a faulty detection: the overload test comes first
ai_error_of_overload_first(meta) ==
  LET code == IF meta.error_code.some THEN meta.error_code.v ELSE 0
      msg == OrEmpty(meta.error_message)
  IN  IF \/ code \in OVERLOAD_STATUSES
         \/ Contains(<<"o", "v", "e", "r", "l", "o", "a", "d", "e", "d">>, Lower(msg))
         \/ Contains(<<"u", "n", "a", "v", "a", "i", "l", "a", "b", "l", "e">>, Lower(msg))
        THEN Some("ai_unavailable")
      ELSE IF code = 429 THEN Some("token_exhausted")
      ELSE Null

\* "Detect quota/overload to surface to UI": the type of ai_error, or Null
ai_error_of(meta) ==
  LET code == IF meta.error_code.some THEN meta.error_code.v ELSE 0
      msg == OrEmpty(meta.error_message)
      quota_hit ==
        \/ code = 429
        \/ Contains(<<"R", "E", "S", "O", "U", "R", "C", "E", "_", "E", "X", "H", "A", "U", "S", "T", "E", "D">>, msg)
        \/ Contains(<<"Q", "u", "o", "t", "a", " ", "e", "x", "c", "e", "e", "d", "e", "d">>, msg)
        \/ Contains(<<"r", "a", "t", "e", " ", "l", "i", "m", "i", "t">>, Lower(msg))
      overloaded ==
        \/ code \in OVERLOAD_STATUSES
        \/ Contains(<<"o", "v", "e", "r", "l", "o", "a", "d", "e", "d">>, Lower(msg))
        \/ Contains(<<"u", "n", "a", "v", "a", "i", "l", "a", "b", "l", "e">>, Lower(msg))
  IN  IF quota_hit THEN Some("token_exhausted")
      ELSE IF overloaded THEN Some("ai_unavailable")
      ELSE Null

\* the pipeline reads ai_match_meta
DetectAiError ==
  /\ client.pc = "matched"
  /\ client' = [client EXCEPT !.pc = "detected", !.ai_error = ai_error_of(client.meta.v)]
  /\ UNCHANGED <<call, ret, cache, req, apiKey, tieUp, job, embeddings, sim, embedder, _tasks, runner>>

\* the pipeline goes on to score and answer
ClientDone ==
  /\ client.pc = "detected"
  /\ client' = ClientIdle
  /\ UNCHANGED <<call, ret, cache, req, apiKey, tieUp, job, embeddings, sim, embedder, _tasks, runner>>

-----------------------------------------------------------------------------
(* services/progress_tracker.py: the in-memory table of background tasks    *)

\* the task ids the endpoints may draw (uuid4().hex in the code)
NumTasks == 2
TaskIds == 1..NumTasks

NoTasks == [t \in TaskIds |-> Null]

\* the record create_task stores
NEW_TASK ==
  [status |-> "running", percent |-> 0, message |-> "Starting",
   result |-> Null, error |-> Null]

create_task(tbl, task_id) == [tbl EXCEPT ![task_id] = Some(NEW_TASK)]

\* update_task without the upper clamp of the percent
update_task_unclamped(tbl, task_id, percent, message) ==
  LET t == tbl[task_id] IN
  IF ~t.some \/ t.v.status # "running" THEN tbl
  ELSE LET p == IF percent.v < 0 THEN 0 ELSE percent.v
           t1 == IF percent.some THEN [t.v EXCEPT !.percent = p] ELSE t.v
           t2 == IF message.some THEN [t1 EXCEPT !.message = message.v] ELSE t1
       IN [tbl EXCEPT ![task_id] = Some(t2)]

\* percent and message are Null for Python's None
update_task(tbl, task_id, percent, message) ==
  LET t == tbl[task_id] IN
  IF ~t.some \/ t.v.status # "running" THEN tbl
  ELSE LET p0 == IF percent.v < 0 THEN 0 ELSE percent.v
           p == IF p0 > 99 THEN 99 ELSE p0
           t1 == IF percent.some THEN [t.v EXCEPT !.percent = p] ELSE t.v
           t2 == IF message.some THEN [t1 EXCEPT !.message = message.v] ELSE t1
       IN [tbl EXCEPT ![task_id] = Some(t2)]

complete_task(tbl, task_id, result) ==
  LET t == tbl[task_id] IN
  IF ~t.some THEN tbl
  ELSE [tbl EXCEPT ![task_id] =
          Some([t.v EXCEPT !.status = "done", !.percent = 100, !.message = "Done",
                           !.result = result, !.error = Null])]

\* str(error_message or "Failed"); the percent stays, clamped below 100
fail_task(tbl, task_id, error_message) ==
  LET t == tbl[task_id] IN
  IF ~t.some THEN tbl
  ELSE LET e == IF error_message = "" THEN "Failed" ELSE error_message
           p == IF t.v.percent >= 100 THEN 99 ELSE t.v.percent
       IN [tbl EXCEPT ![task_id] =
             Some([t.v EXCEPT !.status = "error", !.error = Some(e), !.message = e,
                              !.percent = p])]

\* the arguments the tracker's callers may pass
Percents == {Null, Some(-5), Some(100)}
Messages == {Null, Some("Parsing resume")}
TaskResults == {Null, Some("application")}
ErrorMessages == {"", "Job or candidate not found"}

\* the four functions called in any order, each under the module's lock
CreateTask(t) ==
  /\ _tasks' = create_task(_tasks, t)
  /\ call' = [fn |-> "create_task", args |-> <<t>>]
  /\ UNCHANGED <<ret, cache, req, apiKey, tieUp, job, embeddings, sim, embedder, client, runner>>

UpdateTask(t, percent, message) ==
  /\ _tasks' = update_task(_tasks, t, percent, message)
  /\ call' = [fn |-> "update_task", args |-> <<t>>]
  /\ UNCHANGED <<ret, cache, req, apiKey, tieUp, job, embeddings, sim, embedder, client, runner>>

CompleteTask(t, result) ==
  /\ _tasks' = complete_task(_tasks, t, result)
  /\ call' = [fn |-> "complete_task", args |-> <<t>>]
  /\ UNCHANGED <<ret, cache, req, apiKey, tieUp, job, embeddings, sim, embedder, client, runner>>

FailTask(t, error_message) ==
  /\ _tasks' = fail_task(_tasks, t, error_message)
  /\ call' = [fn |-> "fail_task", args |-> <<t>>]
  /\ UNCHANGED <<ret, cache, req, apiKey, tieUp, job, embeddings, sim, embedder, client, runner>>

\* no background runner has been scheduled
RunnerIdle == [pc |-> "idle", kind |-> "none", at |-> 0]

NoRunners == [t \in TaskIds |-> RunnerIdle]

-----------------------------------------------------------------------------
(* api/job.py: apply_async, scan_resume_async and their background runners  *)

\* the prog(p, msg) calls of _analyze_and_persist_application, in code order
APPLY_PROGRESS ==
  << <<8, "Extracting text">>, <<28, "Parsing resume sections">>,
     <<42, "AI: structuring resume">>, <<58, "AI: matching resume to job">>,
     <<72, "Saving resume">>, <<84, "Computing semantic similarity">>,
     <<90, "Computing final score">>, <<93, "Saving results">>,
     <<99, "Finalizing">> >>

\* the prog(p, msg) calls of _run_scan_task, in code order
SCAN_PROGRESS ==
  << <<8, "Extracting text">>, <<28, "Parsing resume">>,
     <<56, "AI: matching resume to job">>, <<74, "Computing similarity">>,
     <<90, "Calculating final score">> >>

ProgressOf(kind) == IF kind = "apply" THEN APPLY_PROGRESS ELSE SCAN_PROGRESS

\* what the runner hands to complete_task
ResultOf(kind) == IF kind = "apply" THEN Some("application") ELSE Some("scan result")

\* the endpoint, after the upload is stored: a fresh task id, create_task,
\* update_task(3) and the runner added to the response's background tasks
ApplyAsync(t) ==
  /\ runner[t].pc = "idle" /\ ~_tasks[t].some
  /\ _tasks' = update_task(create_task(_tasks, t), t, Some(3), Some("Uploaded. Starting analysis"))
  /\ runner' = [runner EXCEPT ![t] = [pc |-> "queued", kind |-> "apply", at |-> 0]]
  /\ UNCHANGED <<call, ret, cache, req, apiKey, tieUp, job, embeddings, sim, embedder, client>>

ScanResumeAsync(t) ==
  /\ runner[t].pc = "idle" /\ ~_tasks[t].some
  /\ _tasks' = update_task(create_task(_tasks, t), t, Some(3), Some("Uploaded. Starting scan"))
  /\ runner' = [runner EXCEPT ![t] = [pc |-> "queued", kind |-> "scan", at |-> 0]]
  /\ UNCHANGED <<call, ret, cache, req, apiKey, tieUp, job, embeddings, sim, embedder, client>>

\* `except Exception as e: fail_task(task_id, str(e))`, then the runner ends
Raised(t, e) ==
  /\ _tasks' = fail_task(_tasks, t, e)
  /\ runner' = [runner EXCEPT ![t].pc = "raised"]

\* the runner starts inside its try block: the job and the candidate are
\* read, and RuntimeError is raised when one of them is missing
RunTask(t, kind) ==
  /\ runner[t].pc = "queued" /\ runner[t].kind = kind
  /\ \/ /\ runner' = [runner EXCEPT ![t].pc = "prog", ![t].at = 1]
        /\ UNCHANGED _tasks
     \/ Raised(t, "Job or candidate not found")
  /\ UNCHANGED <<call, ret, cache, req, apiKey, tieUp, job, embeddings, sim, embedder, client>>

RunApplyTask(t) == RunTask(t, "apply")

RunScanTask(t) == RunTask(t, "scan")

\* the next prog(p, msg) of the pipeline
Prog(t) ==
  /\ runner[t].pc = "prog"
  /\ LET pm == ProgressOf(runner[t].kind)[runner[t].at] IN
       _tasks' = update_task(_tasks, t, Some(pm[1]), Some(pm[2]))
  /\ runner' = [runner EXCEPT ![t].pc = "step"]
  /\ UNCHANGED <<call, ret, cache, req, apiKey, tieUp, job, embeddings, sim, embedder, client>>

\* PipelineStep whose exception escapes the runner's handler
PipelineStep_unhandled(t) ==
  /\ runner[t].pc = "step"
  /\ \/ /\ runner' = [runner EXCEPT
                        ![t].pc = IF runner[t].at < Len(ProgressOf(runner[t].kind))
                                  THEN "prog" ELSE "return",
                        ![t].at = IF runner[t].at < Len(ProgressOf(runner[t].kind))
                                  THEN @ + 1 ELSE @]
        /\ UNCHANGED _tasks
     \/ /\ runner' = [runner EXCEPT ![t].pc = "raised"]
        /\ UNCHANGED _tasks
  /\ UNCHANGED <<call, ret, cache, req, apiKey, tieUp, job, embeddings, sim, embedder, client>>

\* the code between one prog call and the next (or the end of the try
\* block) returns, or raises an exception
PipelineStep(t) ==
  /\ runner[t].pc = "step"
  /\ \/ /\ runner' = [runner EXCEPT
                        ![t].pc = IF runner[t].at < Len(ProgressOf(runner[t].kind))
                                  THEN "prog" ELSE "return",
                        ![t].at = IF runner[t].at < Len(ProgressOf(runner[t].kind))
                                  THEN @ + 1 ELSE @]
        /\ UNCHANGED _tasks
     \/ Raised(t, "pipeline step failed")
  /\ UNCHANGED <<call, ret, cache, req, apiKey, tieUp, job, embeddings, sim, embedder, client>>

\* the last statement of the try block
CompleteRun(t) ==
  /\ runner[t].pc = "return"
  /\ _tasks' = complete_task(_tasks, t, ResultOf(runner[t].kind))
  /\ runner' = [runner EXCEPT ![t].pc = "returned"]
  /\ UNCHANGED <<call, ret, cache, req, apiKey, tieUp, job, embeddings, sim, embedder, client>>

\* one step of the background runner of task t
RunnerStep(t) ==
  RunApplyTask(t) \/ RunScanTask(t) \/ Prog(t) \/ PipelineStep(t) \/ CompleteRun(t)

-----------------------------------------------------------------------------
(* Specifications                                                          *)

\* the running service: requests in ai_match_resume_to_job over one cache
\* table. No scoring function runs here, so nothing reads tieUp.
Init ==
  /\ call = [fn |-> "system", args |-> <<>>]
  /\ ret = Null
  /\ cache = {}
  /\ req = [r \in Requests |-> Idle]
  /\ apiKey \in BOOLEAN
  /\ tieUp = FALSE
  /\ job = JOB_1
  /\ embeddings = <<>>
  /\ sim = [r \in Requests |-> SimIdle]
  /\ embedder = EMBEDDER_DEFAULT
  /\ client = ClientIdle
  /\ _tasks = NoTasks
  /\ runner = NoRunners

Next ==
  \/ \E r \in Requests : Call(r)
  \/ \E r \in Requests : Lookup(r)
  \/ \E r \in Requests : CallAI(r)
  \/ \E r \in Requests : StoreCheck(r)
  \/ \E r \in Requests : StoreCommit(r)
  \/ \E r \in Requests : Finish(r)

Spec == Init /\ [][Next]_vars

\* the row of job 1 and resume 1 as a damaged table holds it: its
\* match_result_json is no JSON text
CORRUPT_ROW ==
  [NewCacheEntry(_generate_cache_key(Some(1), Some(1), Null, Null).v,
                 [overall_match_score |-> Some(70), score |-> 70], Some(1), Some(1), 120)
     EXCEPT !.match_result_json = [kind |-> "bad", payload |-> @.payload]]

\* the running service over a table that holds the damaged row
InitCorrupt ==
  /\ call = [fn |-> "system", args |-> <<>>]
  /\ ret = Null
  /\ cache = {CORRUPT_ROW}
  /\ req = [r \in Requests |-> Idle]
  /\ apiKey = TRUE
  /\ tieUp = FALSE
  /\ job = JOB_1
  /\ embeddings = <<>>
  /\ sim = [r \in Requests |-> SimIdle]
  /\ embedder = EMBEDDER_DEFAULT
  /\ client = ClientIdle
  /\ _tasks = NoTasks
  /\ runner = NoRunners

SpecCorrupt == InitCorrupt /\ [][Next]_vars

\* the scoring functions on their own: one call, drawn from the input sets
InitScoring ==
  /\ \/ \E a \in ScoreArgs : call = [fn |-> "score_application", args |-> a]
     \/ \E a \in OverlapArgs : call = [fn |-> "skills_overlap_score", args |-> a]
     \/ \E a \in JobTokenArgs : call = [fn |-> "extract_job_skill_tokens", args |-> a]
     \/ \E a \in FinalArgs : call = [fn |-> "compute_final_score", args |-> a]
     \/ \E a \in ApplyArgs : call = [fn |-> "apply_score", args |-> a]
     \/ \E a \in MatchResponses : call = [fn |-> "build_match", args |-> a]
  /\ ret = Null
  /\ cache = {}
  /\ req = [r \in Requests |-> Idle]
  /\ apiKey = TRUE
  /\ tieUp \in BOOLEAN
  /\ job = JOB_1
  /\ embeddings = <<>>
  /\ sim = [r \in Requests |-> SimIdle]
  /\ embedder = EMBEDDER_DEFAULT
  /\ client = ClientIdle
  /\ _tasks = NoTasks
  /\ runner = NoRunners

NextScoring ==
  \/ ScoreApplication
  \/ SkillsOverlapScore
  \/ ExtractJobSkillTokens
  \/ ComputeFinalScore
  \/ ApplyScore
  \/ ParseResponse

SpecScoring == InitScoring /\ [][NextScoring]_vars

\* job 1 is edited while its saved application is re-analysed
NextEdit ==
  \/ UpdateJob
  \/ \E r \in Requests : Reanalyze(r)
  \/ \E r \in Requests : Lookup(r)
  \/ \E r \in Requests : CallAI(r)
  \/ \E r \in Requests : StoreCheck(r)
  \/ \E r \in Requests : StoreCommit(r)
  \/ \E r \in Requests : Finish(r)

SpecEdit == Init /\ [][NextEdit]_vars

\* the settings the embedding code runs under
EmbedderConfigs ==
  { EMBEDDER_DEFAULT,
    [enabled |-> TRUE, loadable |-> FALSE, hashseed |-> 0],
    [enabled |-> FALSE, loadable |-> FALSE, hashseed |-> 0],
    [enabled |-> FALSE, loadable |-> FALSE, hashseed |-> 1] }

\* requests in get_or_create_embedding and resume_job_similarity over one
\* embeddings table
InitEmbed ==
  /\ call = [fn |-> "system", args |-> <<>>]
  /\ ret = Null
  /\ cache = {}
  /\ req = [r \in Requests |-> Idle]
  /\ apiKey = TRUE
  /\ tieUp = FALSE
  /\ job = JOB_1
  /\ embeddings = <<>>
  /\ sim = [r \in Requests |-> SimIdle]
  /\ embedder \in EmbedderConfigs
  /\ client = ClientIdle
  /\ _tasks = NoTasks
  /\ runner = NoRunners

NextEmbed ==
  \/ \E r \in Requests : EmbedCall(r)
  \/ \E r \in Requests : SimilarityCall(r)
  \/ \E r \in Requests : EmbedRead(r)
  \/ \E r \in Requests : EmbedWrite(r)
  \/ \E r \in Requests : SimilarityScore(r)
  \/ \E r \in Requests : EmbedReturn(r)

SpecEmbed == InitEmbed /\ [][NextEmbed]_vars

\* get_or_create_embedding called again and again, one call at a time
NextEmbedSeq == GetOrCreateEmbedding

SpecEmbedSeq == InitEmbed /\ [][NextEmbedSeq]_vars

\* one call of extract_and_clean_resume_text per behaviour
InitExtract ==
  /\ \E a \in ExtractArgs : call = [fn |-> "extract_and_clean_resume_text", args |-> a]
  /\ ret = Null
  /\ cache = {}
  /\ req = [r \in Requests |-> Idle]
  /\ apiKey = TRUE
  /\ tieUp = FALSE
  /\ job = JOB_1
  /\ embeddings = <<>>
  /\ sim = [r \in Requests |-> SimIdle]
  /\ embedder = EMBEDDER_DEFAULT
  /\ client = ClientIdle
  /\ _tasks = NoTasks
  /\ runner = NoRunners

NextExtract == ExtractAndClean

SpecExtract == InitExtract /\ [][NextExtract]_vars

\* calls of gemini_generate_content by one pipeline, one after the other
NextClient ==
  \/ GenerateContent
  \/ Post
  \/ Discover
  \/ Sleep
  \/ MatchMeta
  \/ DetectAiError
  \/ ClientDone

SpecClient == Init /\ [][NextClient]_vars

\* every POST ends (httpx raises a timeout after timeout_s), every sleep
\* ends, and the event loop runs the coroutine on
SpecClientFair == Init /\ [][NextClient]_vars /\ WF_vars(NextClient)

\* the progress tracker alone: its four functions called in any order on
\* any task id
InitTracker ==
  /\ call = [fn |-> "system", args |-> <<>>]
  /\ ret = Null
  /\ cache = {}
  /\ req = [r \in Requests |-> Idle]
  /\ apiKey = TRUE
  /\ tieUp = FALSE
  /\ job = JOB_1
  /\ embeddings = <<>>
  /\ sim = [r \in Requests |-> SimIdle]
  /\ embedder = EMBEDDER_DEFAULT
  /\ client = ClientIdle
  /\ _tasks = NoTasks
  /\ runner = NoRunners

NextTracker ==
  \/ \E t \in TaskIds : CreateTask(t)
  \/ \E t \in TaskIds, p \in Percents, m \in Messages : UpdateTask(t, p, m)
  \/ \E t \in TaskIds, res \in TaskResults : CompleteTask(t, res)
  \/ \E t \in TaskIds, e \in ErrorMessages : FailTask(t, e)

SpecTracker == InitTracker /\ [][NextTracker]_vars

\* the two asynchronous endpoints and the runners they schedule
NextRunner ==
  \/ \E t \in TaskIds : ApplyAsync(t)
  \/ \E t \in TaskIds : ScanResumeAsync(t)
  \/ \E t \in TaskIds : RunApplyTask(t)
  \/ \E t \in TaskIds : RunScanTask(t)
  \/ \E t \in TaskIds : Prog(t)
  \/ \E t \in TaskIds : PipelineStep(t)
  \/ \E t \in TaskIds : CompleteRun(t)

SpecRunner == InitTracker /\ [][NextRunner]_vars

\* Starlette runs every background task that was added, and every step of
\* the pipeline returns or raises
SpecRunnerFair ==
  InitTracker /\ [][NextRunner]_vars /\ \A t \in TaskIds : WF_vars(RunnerStep(t))

\* the texts of the scans
FallbackTexts ==
  {T_PYTHON, T_PYTHON_PANDAS, T_EDUCATION, T_EXPERIENCE, T_NEED_PYTHON, T_HELLO_WORLD, <<>>}

\* one scan in a process started under some hash seed
InitFallback ==
  /\ \E x \in FallbackTexts, y \in FallbackTexts :
       call = [fn |-> "fallback_semantic_similarity",
               args |-> [resume_text |-> x, job_text |-> y]]
  /\ ret = Null
  /\ cache = {}
  /\ req = [r \in Requests |-> Idle]
  /\ apiKey = TRUE
  /\ tieUp = FALSE
  /\ job = JOB_1
  /\ embeddings = <<>>
  /\ sim = [r \in Requests |-> SimIdle]
  /\ \E h \in HashSeeds : embedder = [EMBEDDER_DEFAULT EXCEPT !.hashseed = h]
  /\ client = ClientIdle
  /\ _tasks = NoTasks
  /\ runner = NoRunners

NextFallback == FallbackSimilarity

SpecFallback == InitFallback /\ [][NextFallback]_vars

-----------------------------------------------------------------------------
(* Properties of the scoring engine                                        *)

\* score_application has returned
ScoreDone == call.fn = "score_application" /\ ret.some

\* compute_final_score, called directly, has returned
FinalDone == call.fn = "compute_final_score" /\ ret.some

\* C1: the final score that score_application and compute_final_score return
\* is an integer from 0 to 100, whatever the arguments: a semantic score
\* below 0 or above 1, an AI relevance below 0 or above 100, absent or empty
\* strings, JSON text that does not parse.
C1_FinalScoreInRange ==
  /\ ScoreDone => ret.v.final_score \in 0..100
  /\ FinalDone => ret.v \in 0..100

\* score_application has returned for a semantic score above 1, an AI
\* relevance above 100 and a structured JSON that does not parse
C1_Witness ==
  /\ ScoreDone
  /\ call.args.semantic_score = Rat(3, 2)
  /\ call.args.ai_relevance_pct = Some(150)
  /\ call.args.resume_structured_json = Some(BadJson)
  /\ ret.v.final_score \in 0..100

\* the integer k is a nearest integer to the rational x
Nearest(k, x) == 2 * Abs(k * x.d - x.n) <= x.d

\* 100 * (0.45 ai + 0.20 skills + 0.15 experience + 0.10 education
\*        + 0.10 semantic) over the five components clamped to [0, 1]
WeightedPct(ai, skills, experience, education, semantic) ==
  RAdd(RAdd(RAdd(RAdd(RMul(Rat(45, 1), Clamp01(ai)), RMul(Rat(20, 1), Clamp01(skills))),
                 RMul(Rat(15, 1), Clamp01(experience))),
            RMul(Rat(10, 1), Clamp01(education))),
       RMul(Rat(10, 1), Clamp01(semantic)))

\* C3: the final score is 100 * (0.45 ai + 0.20 skills + 0.15 experience
\* + 0.10 education + 0.10 semantic) over the clamped components, rounded to
\* an integer, and the weight table of the breakdown lists these five
\* weights whatever the arguments are.
C3_WeightedSum ==
  /\ ScoreDone =>
       LET b == ret.v.breakdown
       IN  /\ Nearest(ret.v.final_score,
                      WeightedPct(b.ai_reasoning_score, b.skills_score, b.experience_score,
                                  b.education_score, call.args.semantic_score))
           /\ b.weights = [ai_reasoning |-> Rat(45, 100), skills |-> Rat(20, 100),
                           experience |-> Rat(15, 100), education |-> Rat(10, 100),
                           semantic |-> Rat(10, 100)]
  /\ FinalDone =>
       Nearest(ret.v, WeightedPct(call.args.ai_reasoning_score, call.args.skills_score,
                                  call.args.experience_score, call.args.education_score,
                                  call.args.semantic_score))

\* score_application has returned a final score strictly between 0 and 100
\* to which each of the five components contributes
C3_Witness ==
  /\ ScoreDone
  /\ LET b == ret.v.breakdown
     IN  /\ RLt(RZero, b.ai_reasoning_score)
         /\ RLt(RZero, b.skills_score)
         /\ RLt(RZero, b.experience_score)
         /\ RLt(RZero, b.education_score)
         /\ RLt(RZero, b.semantic_score)
  /\ ret.v.final_score \in 1..99

\* the components of the worked example: AI relevance 88, skills 0.667,
\* experience 0.5, education 0.3, semantic 0.8
ExampleComponents ==
  [semantic_score |-> Rat(4, 5), skills_score |-> Rat(667, 1000),
   experience_score |-> Rat(1, 2), education_score |-> Rat(3, 10),
   ai_reasoning_score |-> Rat(88, 100)]

\* C4, as stated: for the components of the worked example the final score
\* is 58.
C4_ExampleIs58 == FinalDone /\ call.args = ExampleComponents => ret.v = 58

\* C4, amended: for the components of the worked example the final score
\* is 71.
C4_ExampleIs71 == FinalDone /\ call.args = ExampleComponents => ret.v = 71

\* compute_final_score has returned for the components of the worked example
C4_Witness == FinalDone /\ call.args = ExampleComponents

\* C5: every component score recorded in the breakdown lies in [0, 1],
\* whatever the arguments are.
C5_ComponentsInUnitInterval ==
  ScoreDone =>
    \A x \in {ret.v.breakdown.semantic_score, ret.v.breakdown.skills_score,
              ret.v.breakdown.experience_score, ret.v.breakdown.education_score,
              ret.v.breakdown.ai_reasoning_score, ret.v.breakdown.ai_relevance_score} :
      RLe(RZero, x) /\ RLe(x, ROne)

\* skills_overlap_score, called directly, has returned
OverlapDone == call.fn = "skills_overlap_score" /\ ret.some

\* the job tokens of a call that are, or are not, in the resume token set
JobTokensIn(a, present) ==
  SelectSeq(a.job_skills, LAMBDA j : (j \in Range(a.resume_skills)) = present)

\* score is 2*P*R/(P+R) for R = |matched|/|job tokens| and
\* P = |matched|/|resume tokens|, and 0 when P and R are both 0 or a token
\* set is empty
IsF1(score, a) ==
  LET m == Len(JobTokensIn(a, TRUE))
      nj == Len(a.job_skills)
      nr == Cardinality(Range(a.resume_skills))
  IN  IF nj = 0 \/ nr = 0 \/ m = 0 THEN score = RZero
      ELSE RMul(score, RAdd(Rat(m, nr), Rat(m, nj)))
             = RMul(Rat(2, 1), RMul(Rat(m, nr), Rat(m, nj)))

\* job tokens python, fastapi, sql and resume tokens python, fastapi, aws
OverlapExample ==
  [resume_skills |-> <<TOKENS[1], TOKENS[2], TOKENS[4]>>,
   job_skills |-> <<TOKENS[1], TOKENS[2], TOKENS[3]>>]

\* on the example: matched python and fastapi, missing sql, score 2/3
OverlapExampleResult ==
  call.args = OverlapExample =>
    /\ ret.v.matched = <<TOKENS[1], TOKENS[2]>>
    /\ ret.v.missing = <<TOKENS[3]>>
    /\ ret.v.score = Rat(2, 3)

\* C6, as stated: skills_overlap_score returns as matched the job tokens
\* that are in the resume token set and as missing those that are not, and
\* as score 2*P*R/(P+R); on the example it gives matched python and
\* fastapi, missing sql, score 2/3.
C6_OverlapAsStated ==
  OverlapDone =>
    /\ Range(ret.v.matched) = Range(JobTokensIn(call.args, TRUE))
    /\ Range(ret.v.missing) = Range(JobTokensIn(call.args, FALSE))
    /\ IsF1(ret.v.score, call.args)
    /\ OverlapExampleResult

\* C6, amended: matched is the first 12 of the job tokens that are in the
\* resume token set and missing the first 8 of those that are not, in the
\* order of the job tokens; the score is 2*P*R/(P+R) over all of them; on
\* the example it gives matched python and fastapi, missing sql, score 2/3.
C6_OverlapFirst12And8 ==
  OverlapDone =>
    LET m == JobTokensIn(call.args, TRUE)
        x == JobTokensIn(call.args, FALSE)
    IN  /\ ret.v.matched = SubSeq(m, 1, IF Len(m) < 12 THEN Len(m) ELSE 12)
        /\ ret.v.missing = SubSeq(x, 1, IF Len(x) < 8 THEN Len(x) ELSE 8)
        /\ IsF1(ret.v.score, call.args)
        /\ OverlapExampleResult

\* skills_overlap_score has returned 2/3 for the example
C6_Witness == OverlapDone /\ call.args = OverlapExample /\ ret.v.score = Rat(2, 3)

\* extract_job_skill_tokens, called directly, has returned
JobTokensDone == call.fn = "extract_job_skill_tokens" /\ ret.some

\* the canonical forms of the required skills of a call
CanonicalRequired(a) ==
  IF a.required_skills.some
    THEN {_canonical_skill(a.required_skills.v[i]) : i \in 1..Len(a.required_skills.v)}
    ELSE {}

\* a list of at most 60 tokens, none twice, all of them canonical forms of
\* required skills, and all of these when there are at most 60
OnlyRequired(tokens, a) ==
  /\ Len(tokens) <= 60
  /\ Cardinality(Range(tokens)) = Len(tokens)
  /\ Range(tokens) \subseteq CanonicalRequired(a) \ {<<>>}
  /\ Cardinality(CanonicalRequired(a) \ {<<>>}) <= 60
       => Range(tokens) = CanonicalRequired(a) \ {<<>>}

-----------------------------------------------------------------------------
(* Properties of the AI match cache and of ai_match_resume_to_job          *)

\* the rows stored for the job, resume and model of the arguments a
RowsOfIds(rows, a) ==
  {row \in rows : /\ row.job_id = a.job_id
                  /\ row.resume_id = a.resume_id
                  /\ row.model_version = GEMINI_MODEL}

\* request r is in a call that gives both IDs
WithIds(r) == req[r].a.job_id.some /\ req[r].a.resume_id.some

\* request r takes a step from position pc
StepsFrom(r, pc) == req[r].pc = pc /\ req'[r] # req[r]

\* at most one row for a job, resume and model
C8_OneRow ==
  \A x, y \in cache :
    (x.job_id = y.job_id /\ x.resume_id = y.resume_id
       /\ x.model_version = y.model_version) => x = y

\* a stored row stays as it is; cache_match_result on a key that has a row
\* writes nothing and returns True; get_cached_match returns the result of
\* the row
C8_Steps ==
  /\ cache \subseteq cache'
  /\ \A r \in Requests :
       (StepsFrom(r, "store_check") /\ WithIds(r) /\ RowsOfIds(cache, req[r].a) # {})
         => /\ cache' = cache
            /\ req'[r].pc = "done"
            /\ req'[r].cache_ok = Some(TRUE)
  /\ \A r \in Requests :
       (StepsFrom(r, "lookup") /\ WithIds(r))
         => \A row \in RowsOfIds(cache, req[r].a) :
              req'[r].result = Some(row.match_result_json.payload)

\* C8: over any sequence of cache_match_result and get_cached_match calls
\* with the same job_id, resume_id and model, at most one row exists for the
\* key and its stored result never changes: cache_match_result on a key that
\* has a row writes nothing and returns True, and every get_cached_match
\* returns the result stored first.
C8_WriteOnce == []C8_OneRow /\ [][C8_Steps]_vars

\* cache_match_result has returned True without writing, for a result that
\* differs from the one the row of its key holds
C8_Witness ==
  \E r \in Requests :
    /\ req[r].pc = "done"
    /\ req[r].existing
    /\ req[r].cache_ok = Some(TRUE)
    /\ \E row \in RowsOfIds(cache, req[r].a) :
         row.match_result_json.payload # req[r].out.v

\* C9: once ai_match_resume_to_job has a successful AI result after a cache
\* miss with a db session, a row is stored under the cache key of the call,
\* by IDs when both are given and by content hashes when one is missing.
C9_StoredAfterMiss ==
  \A r \in Requests :
    (/\ req[r].pc = "done"
     /\ req[r].a.db
     /\ req[r].sent > 0
     /\ req[r].result.some)
      => \E row \in cache : Some(row.cache_key) = StoreKey(req[r].a)

\* the rows a lookup of request r finds: by job_id, resume_id and model when
\* both IDs are given, else by the pair of content hashes
RowsOfLookup(r) ==
  LET a == req[r].a
  IN  {row \in cache :
         Some(row.cache_key) =
           IF WithIds(r)
             THEN _generate_cache_key(a.job_id, a.resume_id, Null, Null)
             ELSE _generate_cache_key(Null, Null, Some(JobText(a)), Some(a.resume_text))}

\* with a db session no request is sent before the lookup, and a result
\* marked as served from the cache came without a request
C10_LookupFirst ==
  \A r \in Requests :
    /\ (apiKey /\ req[r].a.db /\ req[r].sent > 0) => req[r].looked_up
    /\ req[r].meta.from_cache =>
         /\ req[r].sent = 0
         /\ req[r].pc = "done"
         /\ req[r].result.some

\* a lookup that finds a row ends the call: nothing is sent, the cached
\* result is returned and meta says so
C10_HitSteps ==
  \A r \in Requests :
    StepsFrom(r, "lookup") =>
      \A row \in RowsOfLookup(r) :
        /\ req'[r].pc = "done"
        /\ req'[r].sent = 0
        /\ req'[r].result = Some(row.match_result_json.payload)
        /\ req'[r].meta.from_cache
        /\ req'[r].meta.cached_hit \/ req'[r].meta.cached_by_content

\* C10: in ai_match_resume_to_job with a credential and a db session the
\* cache lookup comes before any network call; on a hit no request is sent
\* to the AI provider, the cached result is returned and meta is marked as
\* served from the cache.
C10_CacheBeforeNetwork == []C10_LookupFirst /\ [][C10_HitSteps]_vars

\* a call has returned a cached result without sending a request
C10_Witness ==
  \E r \in Requests :
    /\ req[r].pc = "done"
    /\ req[r].a.db
    /\ req[r].meta.from_cache
    /\ req[r].sent = 0
    /\ \E row \in cache : req[r].result = Some(row.match_result_json.payload)

-----------------------------------------------------------------------------
(* Properties of cache invalidation                                        *)

\* the scores the provider can answer to the prompt built from a
AnswerScores(a) ==
  { BuildMatch(o.obj.v).out.score : o \in {x \in AiAnswers(a) : x.kind = "ok" /\ x.obj.some} }

\* a match that has returned a result returned one computed from the title
\* and description it was called with
C11_Fresh ==
  \A r \in Requests :
    (req[r].pc = "done" /\ req[r].result.some)
      => req[r].result.v.score \in AnswerScores(req[r].a)

\* an update of job 1 that changes its title or description leaves no cache
\* row of job 1
C11_UpdateInvalidates ==
  (JobText(job') # JobText(job)) => \A row \in cache' : row.job_id # Some(1)

\* C11: when the title or description of a job changes, the cache rows of
\* the job are invalidated, so that a later match for the same
\* (job_id, resume_id) never returns the result computed from the old content
C11_InvalidatedOnChange == []C11_Fresh /\ [][C11_UpdateInvalidates]_vars

-----------------------------------------------------------------------------
(* Properties of the embedding cache                                       *)

\* the rows of the key (entity_type, entity_id, EMBEDDINGS_MODEL) of task t
RowsOfKey(rows, t) ==
  {i \in 1..Len(rows) : /\ rows[i].entity_type = t.entity_type
                         /\ rows[i].entity_id = t.entity_id
                         /\ rows[i].model = EMBEDDINGS_MODEL}

\* the step is a call that follows a call on the same key which returned a row
SecondCall ==
  /\ embedder.enabled
  /\ call.fn = "get_or_create_embedding"
  /\ call'.fn = "get_or_create_embedding"
  /\ call'.args.entity_type = call.args.entity_type
  /\ call'.args.entity_id = call.args.entity_id
  /\ ret.some /\ ret.v.row.some

\* the second call returns the row of the first, computes nothing and
\* leaves the table as it was
SameTextReused ==
  /\ ~ret'.v.raised /\ ~ret'.v.embedded
  /\ ret'.v.row = ret.v.row
  /\ embeddings' = embeddings

\* the second call computes the vector of its text and writes hash, vector
\* and dim into the row of the first, which it returns
OverwrittenInPlace ==
  LET t == call'.args
      norm == normalize_text(t.text)
      v == embed_text(embedder, norm).v
  IN  /\ ~ret'.v.raised /\ ret'.v.embedded
      /\ ret'.v.row.some
      /\ ret'.v.row.v = [ret.v.row.v EXCEPT !.text_hash = text_hash(norm, EMBEDDINGS_MODEL),
                                             !.vector_json = [kind |-> "list", payload |-> v],
                                             !.dim = Len(v)]
      /\ \E i \in 1..Len(embeddings') : embeddings'[i] = ret'.v.row.v
      /\ Len(embeddings') = Len(embeddings)

\* no key has two rows
OneRowPerKey == \A t \in EmbedTasks : Cardinality(RowsOfKey(embeddings, t)) <= 1

C12_StepsAsStated ==
  SecondCall =>
    IF normalize_text(call'.args.text) = normalize_text(call.args.text)
      THEN SameTextReused ELSE OverwrittenInPlace

C12_StepsNonBlank ==
  (SecondCall /\ normalize_text(call'.args.text) # <<>>) =>
    IF normalize_text(call'.args.text) = normalize_text(call.args.text)
      THEN SameTextReused ELSE OverwrittenInPlace

\* C12 as stated: of two calls in a row on one key, a second call whose text
\* normalizes to the same string returns the same row without recomputing
\* and without a new row, a second call with different text recomputes and
\* overwrites that row in place, and a key never has two rows
C12_SecondCallAsStated == []OneRowPerKey /\ [][C12_StepsAsStated]_vars

\* C12 amended: the same, for a second call whose text does not normalize
\* to the empty string
C12_SecondCallNonBlank == []OneRowPerKey /\ [][C12_StepsNonBlank]_vars

\* the job's row was written again after the resume's row was inserted:
\* a second call on the job with another text has overwritten it
C12_Witness ==
  /\ Len(embeddings) = 2
  /\ embeddings[2].id = 1
  /\ call.fn = "get_or_create_embedding" /\ call.args.text = T_PYTHON
  /\ ret.some /\ ret.v.embedded /\ ret.v.row = Some(embeddings[2])

-----------------------------------------------------------------------------
(* Properties of concurrent writers                                        *)

\* request r commits its row although a row of its key has been committed
\* since r's existence check: the writer ends with True and one row of the key
C13_Steps ==
  \A r \in Requests :
    (StepsFrom(r, "store_commit") /\ CacheExisting(cache, StoreKey(req[r].a).v))
      => /\ req'[r].pc = "done"
         /\ req'[r].cache_ok = Some(TRUE)
         /\ Cardinality({row \in cache' : row.cache_key = StoreKey(req[r].a).v}) = 1

\* C13: of two requests that run cache_match_result for one key and both
\* pass the existence check before either commits, the one that hits the
\* unique-constraint violation raises nothing, returns True, and exactly one
\* row of the key exists afterwards
C13_RaceIsCacheHit == [][C13_Steps]_vars

\* request r inserts the row of a key and text for which another request has
\* committed a row since r's query: r returns a row with that row's vector,
\* raises nothing, and the key has one row
C14_Steps ==
  \A r \in Requests :
    LET q == sim[r]
        twins == {i \in 1..Len(embeddings) :
                    /\ embeddings[i].entity_type = q.new.v.entity_type
                    /\ embeddings[i].entity_id = q.new.v.entity_id
                    /\ embeddings[i].model = q.new.v.model
                    /\ embeddings[i].text_hash = q.new.v.text_hash}
    IN  (q.pc = "write" /\ sim'[r] # q /\ ~q.found.some /\ twins # {})
          => /\ ~sim'[r].raised
             /\ Len(sim'[r].got) = Len(q.got) + 1
             /\ sim'[r].got[Len(q.got) + 1].some
             /\ \A i \in twins :
                   sim'[r].got[Len(q.got) + 1].v.vector_json = embeddings[i].vector_json
             /\ Cardinality(RowsOfKey(embeddings', q.new.v)) = 1

\* C14: of two requests that run get_or_create_embedding for one key and one
\* text with no row beforehand, the second writer performs a no-op: neither
\* call raises, both return a row with the same vector, and exactly one row
\* of the key exists afterwards
C14_SecondWriterNoOp == [][C14_Steps]_vars

-----------------------------------------------------------------------------
(* Properties of degraded scoring                                          *)

\* C15: without an ai_relevance_pct score_application still returns:
\* ai_reasoning_score is 0, the final score is the weighted sum of the
\* skills, experience, education and semantic components alone, and the
\* notes say that no AI score was available; with an ai_relevance_pct,
\* ai_reasoning_score is clamp(pct, 0, 100) / 100 and there is no such note
C15_ScoresWithoutAi ==
  ScoreDone =>
    LET a == call.args
        b == ret.v.breakdown
        noted == NOTE_NO_AI \in Range(b.notes)
    IN  IF ~a.ai_relevance_pct.some
          THEN /\ b.ai_reasoning_score = RZero
               /\ Nearest(ret.v.final_score,
                          WeightedPct(RZero, b.skills_score, b.experience_score,
                                      b.education_score, a.semantic_score))
               /\ noted
          ELSE /\ b.ai_reasoning_score = Rat(ClampPct(a.ai_relevance_pct.v), 100)
               /\ ~noted

\* a call without an ai_relevance_pct has returned a positive final score
C15_Witness ==
  /\ ScoreDone
  /\ ~call.args.ai_relevance_pct.some
  /\ ret.v.final_score > 0
  /\ NOTE_NO_AI \in Range(ret.v.breakdown.notes)

\* C16: when the apply pipeline scores an upload whose extracted text is
\* empty, the skills, experience and education scores are 0, the final score
\* is the weighted sum of the AI and semantic components alone, and the notes
\* say that no structured resume skills were available
C16_EmptyResumeNoted ==
  call.fn = "apply_score" /\ ret.some /\ Strip(call.args.extracted) = <<>> =>
    LET a == call.args
        b == ret.v.breakdown
    IN  /\ b.skills_score = RZero
        /\ b.experience_score = RZero
        /\ b.education_score = RZero
        /\ Nearest(ret.v.final_score,
                   WeightedPct(b.ai_reasoning_score, RZero, RZero, RZero, a.semantic_score))
        /\ NOTE_NO_STRUCTURED \in Range(b.notes)

\* C17: with the embedding backend enabled but not loadable and no row in
\* the embeddings table, resume_job_similarity does not raise and returns the
\* hashed-token fallback similarity of its two texts, and that value is the
\* semantic score the apply pipeline goes on with
C17_FallbackWhenUnavailable ==
  \A r \in Requests :
    LET q == sim[r]
    IN  /\ q.fn = "resume_job_similarity"
        /\ q.pc = "done"
        /\ embedder.enabled /\ ~embedder.loadable
        /\ embeddings = <<>>
        => /\ ~q.raised
           /\ q.result = Some(ClampSim(fallback_semantic_similarity(
                                         q.tasks[1].text, q.tasks[2].text, embedder.hashseed)))
           /\ PipelineSemanticScore(q) = q.result.v

\* extract_and_clean_resume_text has returned
ExtractDone == call.fn = "extract_and_clean_resume_text" /\ ret.some

\* C18: whatever the readers make of the file (a parse error, a missing
\* file, any extension), extract_and_clean_resume_text returns a result with
\* clean_text, raw_len, clean_len, is_probably_scanned_or_empty and warnings;
\* the flag is true exactly when the returned clean_text has fewer than 30
\* non-whitespace characters, and then clean_text is empty and clean_len is
\* 0; OCR runs only for a PDF whose first pass was below the floor
C18_WellFormedResult ==
  ExtractDone =>
    LET v == ret.v
    IN  /\ {"clean_text", "raw_len", "clean_len", "is_probably_scanned_or_empty",
            "warnings"} \subseteq DOMAIN v
        /\ v.is_probably_scanned_or_empty = (Len(NonWs(v.clean_text)) < _MIN_NONWS_CHARS)
        /\ v.is_probably_scanned_or_empty => v.clean_text = <<>> /\ v.clean_len = 0
        /\ v.clean_len = Len(v.clean_text)
        /\ v.ocr_calls \in {0, 1}
        /\ v.ocr_calls = 1 =>
             /\ Lower(OrEmpty(call.args.ext)) = <<".", "p", "d", "f">>
             /\ v.first_nonws < _MIN_NONWS_CHARS

\* a PDF that pypdf cannot parse, whose bytes decode to text below the
\* floor and whose OCR fails, has come back flagged and empty
C18_Witness ==
  /\ ExtractDone
  /\ call.args.file.pdf = Null
  /\ call.args.file.bytes = Some(Xs(29))
  /\ call.args.file.ocr.text = <<>>
  /\ ret.v.ocr_calls = 1
  /\ ret.v.is_probably_scanned_or_empty
  /\ ret.v.clean_text = <<>>
  /\ ret.v.raw_len = 29

-----------------------------------------------------------------------------
(* Properties of the AI client and of the error detection                  *)

\* C19: when the AI call has failed with an HTTP error that carries 429 or
\* a quota or rate-limit text, the pipeline's ai_error is token_exhausted;
\* when it carries 408/500/502/503/504 or an overloaded/unavailable text and
\* no quota signal, ai_error is ai_unavailable; ai_error never holds both;
\* and a call that gave up on a status it retries always leaves an ai_error
C19_ErrorSurfaced ==
  client.pc = "detected" /\ client.error.some =>
    LET r == client.last.v
        http == r.kind = "response"
        quota ==
          /\ http
          /\ \/ r.status = 429
             \/ Contains(<<"R", "E", "S", "O", "U", "R", "C", "E", "_", "E", "X", "H", "A", "U", "S", "T", "E", "D">>, r.text)
             \/ Contains(<<"Q", "u", "o", "t", "a", " ", "e", "x", "c", "e", "e", "d", "e", "d">>, r.text)
             \/ Contains(<<"r", "a", "t", "e", " ", "l", "i", "m", "i", "t">>, Lower(r.text))
        overload ==
          /\ http
          /\ \/ r.status \in {408, 500, 502, 503, 504}
             \/ Contains(<<"o", "v", "e", "r", "l", "o", "a", "d", "e", "d">>, Lower(r.text))
             \/ Contains(<<"u", "n", "a", "v", "a", "i", "l", "a", "b", "l", "e">>, Lower(r.text))
    IN  /\ quota => client.ai_error = Some("token_exhausted")
        /\ overload /\ ~quota => client.ai_error = Some("ai_unavailable")
        /\ client.ai_error \in {Null, Some("token_exhausted"), Some("ai_unavailable")}
        /\ http /\ r.status \in {408, 429, 500, 502, 503, 504} =>
             client.attempt = client.max_retries /\ client.ai_error.some

\* a call that was retried, got 503 with a RESOURCE_EXHAUSTED body on its
\* last attempt and was reported as token_exhausted
C19_Witness ==
  /\ client.pc = "detected"
  /\ client.error = Some("AIClientHTTPError")
  /\ client.attempt >= 1
  /\ client.attempt = client.max_retries
  /\ client.last.v.status = 503
  /\ client.last.v.text = M_RESOURCE_EXHAUSTED
  /\ client.ai_error = Some("token_exhausted")

\* a status or exception that the claim counts as transient
TransientFailure(r) ==
  \/ r.kind = "response" /\ r.status \in {408, 429, 500, 502, 503, 504}
  \/ r.kind = "timeout"

\* at most max_retries + 1 attempts, and before attempt k + 1 the sleeps
\* 0.5 * 2^0, ..., 0.5 * 2^k
C20_Bounded ==
  client.pc # "idle" =>
    /\ client.attempt + 1 <= (IF client.max_retries < 0 THEN 1 ELSE client.max_retries + 1)
    /\ client.max_retries < 0 => client.posts = 0
    /\ Len(client.sleeps) = client.attempt
    /\ \A k \in 1..Len(client.sleeps) :
         client.sleeps[k] = RMul(Rat(1, 2), Rat(Pow2(k - 1), 1))

\* a request is sent again only after a transient failure and a sleep
C20_StepsAsStated ==
  client.pc # "idle" /\ client'.pc # "idle" /\ client'.posts > client.posts =>
    /\ client.last.some => TransientFailure(client.last.v)
    /\ Len(client.sleeps) = client.posts

\* a new attempt follows a transient failure, another request error
\* included, and a sleep; within an attempt the request is sent once more,
\* without a sleep, only after a 404 for the model
C20_RetrySteps ==
  client.pc # "idle" /\ client'.pc # "idle" /\ client'.posts > client.posts =>
    IF client.pc = "post"
      THEN /\ client.last.some =>
                TransientFailure(client.last.v) \/ client.last.v.kind = "request_error"
           /\ client.posts <= 2 * client.attempt
      ELSE /\ ModelNotFound(client.last.v)
           /\ client.posts <= 2 * client.attempt + 1

\* a call that has started comes to its result or its exception
C20_Terminates ==
  client.pc \in {"post", "discover", "sleep"} ~> client.pc \in {"returned", "raised"}

\* C20 as stated: gemini_generate_content sends its request again only
\* after HTTP 408/429/500/502/503/504 or a timeout, having slept 0.5s * 2^k
\* after attempt k, makes at most max_retries + 1 attempts, and always ends
\* with a result or an error
C20_RetriesAsStated == []C20_Bounded /\ [][C20_StepsAsStated]_vars /\ C20_Terminates

\* C20, amended: a new attempt follows HTTP 408/429/500/502/503/504, a
\* timeout or another request error, after a sleep of 0.5s * 2^k; an attempt
\* answered by a 404 for the model may send the request once more without
\* sleeping; there are at most max_retries + 1 attempts, and the call always
\* ends with a result or an error
C20_RetriesBounded == []C20_Bounded /\ [][C20_RetrySteps]_vars /\ C20_Terminates

\* a call has returned on its third attempt, after sleeps of 0.5s and 1s
\* and one request to a discovered model
C20_Witness ==
  /\ client.pc = "returned"
  /\ client.attempt = 2
  /\ client.sleeps = <<Rat(1, 2), Rat(1, 1)>>
  /\ client.posts = 4

-----------------------------------------------------------------------------
(* C21: the errors of gemini_generate_content                              *)

\* the last request of the call failed: a status of 400 or more, a timeout
\* or another request error
LastFailed ==
  /\ client.pc \in {"returned", "raised"}
  /\ client.last.some
  /\ ~(client.last.v.kind = "response" /\ client.last.v.status < 400)

-----------------------------------------------------------------------------
(* C22: the model discovery of gemini_generate_content                     *)

\* the discovery sends the request to the discovered model
DiscoveredRetry == client.pc = "discover" /\ client'.posts = client.posts + 1

\* C22: within one call of gemini_generate_content the model discovery that
\* follows a 404 "model not found" happens at most once, and when the one
\* retry against the discovered model fails too, the call gives up with an
\* error.
C22_DiscoveryOnce ==
  /\ [](client.pc # "idle" => client.discoveries <= 1)
  /\ [][DiscoveredRetry /\ client'.last.v.status >= 400 => client'.pc = "raised"]_vars

-----------------------------------------------------------------------------
(* C23: a cache row whose stored JSON is invalid                           *)

\* request r has ended a match by IDs with a result the AI call gave
FreshById(r) ==
  /\ req[r].pc = "done"
  /\ req[r].a.db
  /\ BothIds(req[r].a)
  /\ req[r].sent = 1
  /\ req[r].result.some

\* C23: a cache row whose stored JSON is invalid is a cache miss, and the
\* match then proceeds as if the key had no row: the AI call is made, its
\* result is returned, and a later lookup for the key returns a result, the
\* fresh one when this call stored it.
C23_CorruptRowIsMiss ==
  /\ get_cached_match({CORRUPT_ROW}, Some(1), Some(1), Null, Null) = Null
  /\ \A r \in Requests :
       FreshById(r) =>
         /\ LookupCached(cache, req[r].a).some
         /\ req[r].cache_ok = Some(TRUE) /\ ~req[r].existing =>
              LookupCached(cache, req[r].a) = req[r].result

-----------------------------------------------------------------------------
(* C24: the legacy flat shape of an AI response                            *)

\* C24: for an AI response in the legacy flat shape, with none of the
\* sectioned fields, ai_match_resume_to_job builds its result from the legacy
\* shape: the format is legacy_v1 and the score is the response's score
\* clamped to 0..100.
C24_LegacyShapeUsed ==
  call.fn = "build_match" /\ call.args.sections = "absent" /\ ret.some =>
    /\ ret.v.format = "legacy_v1"
    /\ ret.v.out.score = ClampPct(call.args.score.v)

-----------------------------------------------------------------------------
(* C25: the vectors resume_job_similarity scores                           *)

\* request r takes the scoring step of resume_job_similarity
ScoreStep(r) == sim[r].pc = "score" /\ sim'[r].pc = "done"

\* the create step gave no row for side i (1: resume, 2: job) of request r,
\* and the table holds a vector for it
CachedOnly(r, i) ==
  /\ ~sim[r].got[i].some
  /\ LatestRow(embeddings, IF i = 1 THEN "resume" ELSE "job", sim[r].tasks[i].entity_id,
               EMBEDDINGS_MODEL).some

\* the row of side i after the latest-row query
RowOf(r, i) ==
  IF sim[r].got[i].some THEN sim[r].got[i]
  ELSE LatestRow(embeddings, IF i = 1 THEN "resume" ELSE "job", sim[r].tasks[i].entity_id,
                 EMBEDDINGS_MODEL)

InUnitInterval(s) == ~s.neg /\ RLe(s.sq, ROne)

\* C25 as stated: when the create step returns null for an entity, the most
\* recently updated cached vector of the entity is used if one exists (the
\* vectors are scored, not the texts); the token fallback is used if neither
\* side has a vector; the value returned is within [0,1].
C25_CachedVectorUsed ==
  [][\A r \in Requests :
       ScoreStep(r) =>
         /\ (CachedOnly(r, 1) \/ CachedOnly(r, 2)) =>
              ~UsesFallback(embeddings, sim[r].tasks, sim[r].got)
         /\ ~RowOf(r, 1).some /\ ~RowOf(r, 2).some =>
              sim'[r].result.v =
                ClampSim(fallback_semantic_similarity(sim[r].tasks[1].text,
                                                      sim[r].tasks[2].text, embedder.hashseed))
         /\ InUnitInterval(sim'[r].result.v)]_vars

\* C25 amended: when the create step returns null for an entity, the most
\* recently updated cached vector of the entity is taken if one exists; the
\* cosine of the two vectors is returned when both sides then have one, the
\* token fallback of the two texts when either side has none; the value
\* returned is within [0,1].
C25_CachedVectorTaken ==
  [][\A r \in Requests :
       ScoreStep(r) =>
         /\ RowOf(r, 1).some /\ RowOf(r, 2).some =>
              /\ ~UsesFallback(embeddings, sim[r].tasks, sim[r].got)
              /\ sim'[r].result.v =
                   ClampSim(cosine_similarity(vector_from_row(RowOf(r, 1).v),
                                              vector_from_row(RowOf(r, 2).v)))
         /\ ~RowOf(r, 1).some \/ ~RowOf(r, 2).some =>
              /\ UsesFallback(embeddings, sim[r].tasks, sim[r].got)
              /\ sim'[r].result.v =
                   ClampSim(fallback_semantic_similarity(sim[r].tasks[1].text,
                                                         sim[r].tasks[2].text,
                                                         embedder.hashseed))
         /\ InUnitInterval(sim'[r].result.v)]_vars

\* an empty resume text was scored by the vector stored earlier
C25_Witness ==
  \E r \in Requests :
    /\ sim[r].pc = "done"
    /\ sim[r].fn = "resume_job_similarity"
    /\ ~sim[r].raised
    /\ sim[r].tasks[1].text = <<>>
    /\ ~sim[r].got[1].some
    /\ sim[r].got[2].some
    /\ sim[r].result.v = [neg |-> FALSE, sq |-> ROne]

-----------------------------------------------------------------------------
(* C26: the experience text and its score                                  *)

\* the experience section the scoring reads
ExperienceSection(a) ==
  RawJson(a.resume_structured_json, a.resume_ai_structured_json).payload.sections.experience

\* the section's text joined with its bullets
TextWithBullets(sec) ==
  IF sec.bullets # <<>> THEN Strip(JoinNL(sec.text, JoinLines(sec.bullets)))
  ELSE Strip(sec.text)

\* C26: the experience text used for scoring is the experience section's
\* text joined with its bullets, so that a structured resume whose experience
\* is carried only by bullets has a non-empty experience text, and
\* experience_score is 0.7 * (fraction of job tokens among the experience
\* tokens) + 0.3 * min(1, len(text) / 900) of that text, 0 without text or
\* job tokens.
C26_ExperienceFromBullets ==
  ScoreDone /\ RawJson(call.args.resume_structured_json,
                       call.args.resume_ai_structured_json).kind = "obj" =>
    LET a == call.args
        sec == ExperienceSection(a)
        jt == extract_job_skill_tokens(a.job_title, a.job_description, a.job_required_skills)
    IN  /\ sec.text = <<>> /\ sec.items = <<>> /\ sec.bullets # <<>> =>
             extract_resume_experience_text(a.resume_structured_json,
                                            a.resume_ai_structured_json) # <<>>
        /\ sec.items = <<>> =>
             ret.v.breakdown.experience_score =
               experience_relevance_score(jt, TextWithBullets(sec))

-----------------------------------------------------------------------------
(* C27: the deterministic structured JSON comes first                      *)

\* C27: skills, experience text and education text are read from the
\* deterministic structured JSON whenever it is present, and the
\* AI-structured JSON only when it is absent: for a non-empty deterministic
\* JSON, the call that differs only in resume_ai_structured_json returns the
\* same (skills_score, final_score, breakdown), and without a deterministic
\* JSON the three are read from the AI-structured one.
C27_DeterministicFirst ==
  ScoreDone =>
    LET a == call.args
        det == a.resume_structured_json
        ai == a.resume_ai_structured_json
    IN  IF Truthy(det)
          THEN /\ \A aj \in AiStructuredJsons :
                    score_application([a EXCEPT !.resume_ai_structured_json = aj]) = ret.v
               /\ extract_resume_skills(det, ai) = extract_resume_skills(det, Null)
               /\ extract_resume_experience_text(det, ai) = extract_resume_experience_text(det, Null)
               /\ extract_resume_education_text(det, ai) = extract_resume_education_text(det, Null)
          ELSE /\ extract_resume_skills(det, ai) = extract_resume_skills(ai, Null)
               /\ extract_resume_experience_text(det, ai) = extract_resume_experience_text(ai, Null)
               /\ extract_resume_education_text(det, ai) = extract_resume_education_text(ai, Null)

\* a call with both JSON texts has returned, and the AI-structured one alone
\* would have given another result
C27_Witness ==
  /\ ScoreDone
  /\ call.args.resume_structured_json = Some(JsonOf(RESUME_FULL))
  /\ call.args.resume_ai_structured_json = Some(JsonOf(RESUME_AI))
  /\ ret.v.skills_score # RZero
  /\ score_application([call.args EXCEPT !.resume_structured_json = Null]) # ret.v

-----------------------------------------------------------------------------
(* Properties of the progress tracker                                      *)

\* C28: whatever sequence of create_task, update_task, complete_task and
\* fail_task has run, every task's status is running, done or error, its
\* percent lies in 0..100 and is 100 exactly when the status is done; and
\* an update_task on a task that is not running leaves the table as it was.
C28_TrackerInvariant ==
  /\ [](\A t \in TaskIds : _tasks[t].some =>
          /\ _tasks[t].v.status \in {"running", "done", "error"}
          /\ _tasks[t].v.percent \in 0..100
          /\ (_tasks[t].v.percent = 100 <=> _tasks[t].v.status = "done"))
  /\ [][\A t \in TaskIds, p \in Percents, m \in Messages :
          (UpdateTask(t, p, m) /\ (~_tasks[t].some \/ _tasks[t].v.status # "running"))
            => _tasks' = _tasks]_vars

\* update_task has just been called on task 2, which complete_task and then
\* fail_task had settled, while task 1 is running with its percent clamped
C28_Witness ==
  /\ call = [fn |-> "update_task", args |-> <<2>>]
  /\ _tasks[2].some /\ _tasks[2].v.status = "error" /\ _tasks[2].v.result.some
  /\ _tasks[1].some /\ _tasks[1].v.status = "running" /\ _tasks[1].v.percent = 99

\* task t is stored and its status is done or error
Settled(t) == _tasks[t].some /\ _tasks[t].v.status \in {"done", "error"}

\* C29: every task created by apply_async or scan_resume_async is in the
\* end done or error; when its runner has ended on an exception the task is
\* error, when it has ended normally the task is done and holds the result;
\* while the task is running its percent never decreases; once it is done
\* or error no step changes it.
C29_TaskSettles ==
  /\ \A t \in TaskIds : _tasks[t].some ~> Settled(t)
  /\ [](\A t \in TaskIds :
          /\ runner[t].pc = "raised" =>
                _tasks[t].v.status = "error" /\ _tasks[t].v.error.some
          /\ runner[t].pc = "returned" =>
                _tasks[t].v.status = "done" /\ _tasks[t].v.result = ResultOf(runner[t].kind))
  /\ [][\A t \in TaskIds :
          /\ (_tasks[t].some /\ _tasks[t].v.status = "running" /\ _tasks'[t].v.status = "running")
                => _tasks'[t].v.percent >= _tasks[t].v.percent
          /\ Settled(t) => _tasks'[t] = _tasks[t]]_vars

\* the runner of task 1 raised after prog(58) and left the task in error at
\* 58 percent, and the scan of task 2 ended normally
C29_Witness ==
  /\ runner[1].pc = "raised" /\ runner[1].kind = "apply"
  /\ _tasks[1].v.status = "error" /\ _tasks[1].v.percent = 58
  /\ runner[2].pc = "returned" /\ runner[2].kind = "scan"
  /\ _tasks[2].v.status = "done" /\ _tasks[2].v.percent = 100

-----------------------------------------------------------------------------
(* Properties of the token fallback                                        *)

\* C30: the value fallback_semantic_similarity has returned for two texts
\* is the value it returns for them under every hash seed.
C30_SeedIndependent ==
  (call.fn = "fallback_semantic_similarity" /\ ret.some) =>
    \A h \in HashSeeds :
      ret.v = fallback_semantic_similarity(call.args.resume_text, call.args.job_text, h)

====
